---- MODULE Spec2Model ----
(***************************************************************************)
(* Model of the CLOVIS multi-agent orchestrator.                           *)
(*                                                                         *)
(*   Spec        one Router Session: models/models.py call_gemini and      *)
(*               _run_routed_agent_step, with every await of the session   *)
(*               a separate step so that a cancellation can arrive there.  *)
(*   SpecApp     app.py: overlay inputs, the single-session guard,         *)
(*               stop_all, and the draw action queue of clovis/tools.py.   *)
(*   SpecServer  ui/server.py: overlay_input de-duplication.               *)
(*                                                                         *)
(* Texts are modelled by what the code looks at: their kind, their length  *)
(* after whitespace normalisation, and whether they contain one of the     *)
(* "repeat artifact" phrases.                                              *)
(***************************************************************************)
EXTENDS Integers, Sequences, FiniteSets, TLC

VARIABLES
    \* ---- Router Session (models/models.py) ----
    pc,                          \* where call_gemini is suspended
    user_prompt,                 \* argument of call_gemini
    chain_steps,                 \* list of ChainStep records
    seen_step_signatures,        \* signature -> count
    step_index,                  \* loop variable of call_gemini
    routing_result,              \* result of the last route_request
    result,                      \* result dict of the running agent
    latest_screen_context,
    prompt_context,              \* screen context rows of the last router prompt
    _RAPID_CONVERSATION_HISTORY, \* deque(maxlen=32)
    _stored_screenshot,          \* TRUE when a screenshot is stored
    cancel_requested,            \* Task.cancel() was called on the session task
    stop_requested,              \* agents/cua_vision/tools.py stop_requested
    status_bubble,               \* last status-bubble command issued by the router
    \* ---- history variables of the session ----
    direct_responses,            \* every direct_response call, in order
    router_calls,                \* number of route_request calls
    run_log,                     \* signatures of the steps whose agent was started
    chain_sigs,                  \* signature of the request behind each ChainStep
    agent_end,                   \* how the agent of the current step terminated
    last_step_end,               \* outcome of the last step that returned a result
    raised_from,                 \* where an exception escaped from
    router_failure,              \* route_request raised / returned no dict
    \* ---- the clock read by time.monotonic(), in tenths of a second ----
    now,
    \* ---- app.py ----
    current_task,                \* 0 for None, else an index of tasks
    tasks,                       \* the tasks made by asyncio.create_task
    last_overlay_text,
    last_overlay_ts,
    \* ---- agents/clovis/tools.py ----
    ACTION_QUEUE,
    _ACTION_TASK,                \* the task running _run_queue_async
    cancelled_consumers,         \* earlier consumer tasks, cancelled, not yet resumed
    _LAST_DIRECT_RESPONSE,
    _WAITED_AFTER_DIRECT_RESPONSE,
    _ACTIVE_TEXT_RECTS,
    \* ---- history variables of app.py and the draw queue ----
    inputs_handled,              \* number of handle_overlay_input calls
    last_input,                  \* what handle_overlay_input did with the last input
    started_count,               \* number of inputs that started a session
    queued_count,                \* number of queue_action calls so far
    executed,                    \* ids of the actions whose function was started
    killed,                      \* ids queued, and not yet started, at a stop_all
    held_at_stop,                \* ids a consumer had popped when stop_all ran
    stops,                       \* number of stop_all calls
    \* ---- ui/server.py ----
    _seen_overlay_request_ids,
    _last_overlay_text,
    _last_overlay_ts,
    conn_pc,                     \* per connection: where _handle_client is
    events,                      \* every overlay_input event, in order of arrival
    \* ---- text layout of agents/clovis/tools.py, with its geometry ----
    viewport,                    \* the sizes _get_sizes has read, <<0, 0>> before
    text_rects,                  \* _ACTIVE_TEXT_RECTS as pairs <<id, rect>>
    placing,                     \* _create_text_non_overlapping awaiting _create_text
    placements,                  \* number of _create_text_non_overlapping calls
    all_free,                    \* every registered placement had a free candidate
    last_placed,                 \* the placement registered last
    \* ---- Overlay Entity Registry of ui/server.py ----
    boxes,                       \* self.boxes: the dict's entries, "" where one was deleted
    texts,                       \* self.texts, likewise
    clients,                     \* per websocket: where its _handle_client is
    commands,                    \* number of registry commands handled
    hidden,                      \* history: the texts hidden by overlay_hide since drawn
    \* ---- coordinate conversion of the draw tools and the vision tools ----
    coords,                      \* the conversion under way: its input and results
    \* ---- Theme Sampler of ui/server.py ----
    _last_screenshot,            \* what the capture callback returned last
    _last_screenshot_rgb,        \* the cached RGB image
    _last_capture_backend,
    _last_dark_sample,           \* the last decision of _is_dark_at
    sampled,                     \* the last call of the sampler: input and result
    \* ---- CLIAgent of agents/cua_cli/agent.py ----
    _managed_background_processes, \* the class-wide table: process id -> metadata
    os_processes,                \* every process group launched: id -> its record
    stopped,                     \* ids handed to stop_background_process with success
    at_exit_ran,                 \* the interpreter's at-exit hooks have run
    cli_pc,                      \* where the execute call under way is
    cli_task,                    \* its task text
    cli_timeout,                 \* its timeout argument
    run_timeout,
    short_timeout_applied,
    cli_stage,                   \* which _run_cli call of execute is under way
    subprocess,                  \* the CLI subprocess of the run and its reader tasks
    response,                    \* the CLIResponse of the last finished run
    cli_runs,                    \* the runs of this call: timeout and whether it fired
    port_waits,                  \* the _wait_for_any_port calls of this call
    starting,                    \* the _start_background_process call under way
    cli_result,                  \* what execute returned
    cli_calls,                   \* number of execute calls made
    \* ---- SingleCallVisionEngine of agents/cua_vision/single_call.py ----
    batch,                       \* the last batch normalised: as given and as returned
    v_pc,                        \* where run is suspended
    v_task,                      \* argument of run
    v_function_calls,            \* the calls of the response being handled
    call_index,                  \* the call of them being handled
    engine,                      \* the fields of the engine
    retries,                     \* agent.retries
    fallback_for,                \* which caller awaits _attempt_fallback
    registered,                  \* history: the actions given to the click-loop guard
    after_stop,                  \* history: kinds of work done with the stop flag set
    responses,                   \* number of model calls answered
    ended,                       \* how run ended
    handled,                     \* history: the calls handled and what was done for each
    \* ---- BrowserAgent of agents/browser/agent.py ----
    _shared_backend,             \* "browser_use", "playwright" or "" for None
    _shared_browser_use_session, \* the session, or None
    _shared_playwright_page,     \* the page with its context, browser and driver, or None
    live,                        \* sessions and drivers alive outside the program
    b_pc,                        \* where execute is suspended
    b_calls,                     \* number of execute calls made
    bootstrap,                   \* how the browser_use package behaves in this process
    b_entry,                     \* history: _shared_backend when the call began
    b_paths,                     \* history: the paths the call has entered
    pw_call,                     \* _execute_with_playwright: the task and what it met
    pw_result,                   \* _execute_with_playwright: how the task was served
    \* ---- go_to_element of agents/cua_vision/tools.py ----
    zoom,                        \* the box given and where the cursor went
    \* ---- VisualizationServer._broadcast of ui/server.py ----
    bc_clients,                  \* self.clients
    connected,                   \* the peers that have connected
    closed,                      \* the peers whose connection is closed
    bc,                          \* the broadcast under way
    broadcasts,                  \* number of broadcasts begun
    attempted,                   \* history: the peers a send was awaited for
    failed                       \* history: the peers whose send raised ConnectionClosed

routerVars == <<pc, user_prompt, chain_steps, seen_step_signatures, step_index,
                routing_result, result, latest_screen_context, prompt_context,
                _RAPID_CONVERSATION_HISTORY, _stored_screenshot, cancel_requested,
                status_bubble, direct_responses, router_calls,
                run_log, chain_sigs, agent_end, last_step_end, raised_from,
                router_failure>>

appVars == <<current_task, tasks, last_overlay_text, last_overlay_ts, ACTION_QUEUE,
             _ACTION_TASK, cancelled_consumers, _LAST_DIRECT_RESPONSE,
             _WAITED_AFTER_DIRECT_RESPONSE, _ACTIVE_TEXT_RECTS, inputs_handled,
             last_input, started_count, queued_count, executed, killed, held_at_stop, stops>>

serverVars == <<_seen_overlay_request_ids, _last_overlay_text, _last_overlay_ts,
                conn_pc, events>>

layoutVars == <<viewport, text_rects, placing, placements, all_free, last_placed>>

registryVars == <<boxes, texts, clients, commands, hidden>>

coordVars == <<coords>>

themeVars == <<_last_screenshot, _last_screenshot_rgb, _last_capture_backend,
               _last_dark_sample, sampled>>

cliVars == <<_managed_background_processes, os_processes, stopped, at_exit_ran, cli_pc,
             cli_task, cli_timeout, run_timeout, short_timeout_applied, cli_stage,
             subprocess, response, cli_runs, port_waits, starting, cli_result, cli_calls>>

engineVars == <<v_pc, v_task, v_function_calls, call_index, engine, retries, fallback_for,
                registered, after_stop, responses, ended, handled>>

visionVars == <<batch, engineVars>>

browserVars == <<_shared_backend, _shared_browser_use_session, _shared_playwright_page, live,
                 b_pc, b_calls, bootstrap, b_entry, b_paths>>

directVars == <<pw_call, pw_result>>

zoomVars == <<zoom>>

broadcastVars == <<bc_clients, connected, closed, bc, broadcasts, attempted, failed>>

otherThanBroadcast == <<routerVars, stop_requested, now, appVars, serverVars, layoutVars,
                        registryVars, coordVars, themeVars, cliVars, visionVars, browserVars,
                        directVars, zoomVars>>

agentVars == <<cliVars, visionVars, browserVars, directVars, zoomVars, broadcastVars>>

otherThanZoom == <<routerVars, stop_requested, now, appVars, serverVars, layoutVars,
                   registryVars, coordVars, themeVars, cliVars, visionVars, browserVars,
                   directVars, broadcastVars>>

otherThanDirect == <<routerVars, stop_requested, now, appVars, serverVars, layoutVars,
                     registryVars, coordVars, themeVars, cliVars, visionVars, browserVars,
                     zoomVars, broadcastVars>>

otherThanBrowser == <<routerVars, stop_requested, now, appVars, serverVars, layoutVars,
                      registryVars, coordVars, themeVars, cliVars, visionVars, directVars,
                      zoomVars, broadcastVars>>

uiVars == <<layoutVars, registryVars, coordVars, themeVars, agentVars>>

vars == <<routerVars, stop_requested, now, appVars, serverVars, uiVars>>

(***************************************************************************)
(* Constants of models/models.py                                           *)
(***************************************************************************)
_MAX_ROUTER_CHAIN_STEPS == 6
_REPEATED_STEP_LIMIT == 3
HistoryMaxLen == 32
DirectTextMaxLen == 420
HistoryTextMaxLen == 600
RouterErrorPrefixLen == 26
CompletionTextMaxLen == 1400

(***************************************************************************)
(* Bounds of the model                                                     *)
(***************************************************************************)
MaxClovisDirectCalls == 1
MaxExcLen == 395
MaxClock == 41
MaxInputs == 2
MaxActions == 2
MaxStops == 1
MaxEvents == 3
MaxPlacements == 3
MaxCommands == 3

(***************************************************************************)
(* Texts                                                                   *)
(***************************************************************************)
T(kind, len, artifact) == [kind |-> kind, len |-> len, artifact |-> artifact]
NoneText == T("None", 0, FALSE)
EmptyText == T("empty", 0, FALSE)

\* _clean_text: None or blank -> fallback; longer than max_len -> cut to
\* max_len - 3 characters plus "...", i.e. exactly max_len characters.
_clean_text(value, fallback, max_len) ==
    IF value.kind = "None" \/ value.len = 0 THEN fallback
    ELSE IF value.len > max_len THEN [value EXCEPT !.len = (max_len - 3) + 3]
    ELSE value

\* What str.split/join and str.lower make of the task strings the router
\* sends: "clone repo", "Clone  Repo", "inspect screen", "explain this", "".
WsNormal(t) == IF t = "Clone  Repo" THEN "Clone Repo" ELSE t

Lower(t) == IF t = "Clone Repo" THEN "clone repo"
            ELSE IF t = "Clone  Repo" THEN "clone  repo"
            ELSE t

\* _routing_task_text: _clean_text(task or query or "", "", 220)
_routing_task_text(rr) == WsNormal(rr.task)

\* _routing_signature: (agent.strip().lower(), task_text.strip().lower())
_routing_signature(rr) == <<rr.agent, Lower(_routing_task_text(rr))>>

(***************************************************************************)
(* What route_request can hand to call_gemini                              *)
(***************************************************************************)
RR(agent, task, text, args_ok) ==
    [agent |-> agent, task |-> task, text |-> text, args_ok |-> args_ok]

\* The agents whose step is wrapped in a status bubble.  The browser branch
\* (line 454-481) has the shape of the cua_cli branch (bubble, constructor
\* outside the try, execute, completion); the router of the model chooses
\* among cua_cli and cua_vision.
StatusAgents == {"cua_cli", "cua_vision"}

\* Delegations: invoke_cua_cli (twice, with task texts that differ in case
\* and spacing only), invoke_cua_vision,
\* invoke_clovis (its "query" is the task text), request_screen_context
\* (an empty task makes the judge use the user prompt), and an agent name
\* the router does not know (only a substituted model can return it).
DelegatedResults ==
    { RR("cua_cli", "clone repo", NoneText, TRUE),
      RR("cua_cli", "Clone  Repo", NoneText, TRUE),
      RR("cua_vision", "inspect screen", NoneText, TRUE),
      RR("clovis", "explain this", NoneText, TRUE),
      RR("screen_context", "", NoneText, TRUE),
      RR("unknown_agent", "clone repo", NoneText, TRUE) }

\* direct_response(text, ...): the text may be missing, short, over-long, or
\* a "repeat artifact"; args_ok is FALSE when the model's arguments hold a
\* key that direct_response() does not accept.
DirectTexts == { NoneText, T("router_text", 4, FALSE), T("router_text", 4, TRUE),
                 T("router_text", 421, FALSE) }

DirectResults == { RR("direct", "", t, TRUE) : t \in DirectTexts }
                     \cup { RR("direct", "", T("router_text", 4, FALSE), FALSE) }

\* Lengths of the exception text when generate_content raises.
ExcLens == {20, MaxExcLen}

\* route_request line 795-803: the exception becomes a direct result whose
\* text is "Router generation failed: <exc>", cleaned to 420 characters.
GenerationFailedResult(exc_len, artifact) ==
    RR("direct", "",
       _clean_text(T("router_error", RouterErrorPrefixLen + exc_len, artifact),
                   T("router_error", 25, FALSE), DirectTextMaxLen),
       TRUE)

\* call_gemini line 604-608: anything that is not a dict.
InvalidShapeResult == RR("direct", "", T("invalid_shape", 42, FALSE), TRUE)

\* The keys seen_step_signatures can get.
Signatures == { _routing_signature(rr) : rr \in DelegatedResults }

(***************************************************************************)
(* Fixed messages of call_gemini                                           *)
(***************************************************************************)
RepeatedMsg == T("kept_repeating", 141, FALSE)
MaxStepMsg == T("max_steps", 109, FALSE)
RapidFallback == T("rapid_fallback", 24, FALSE)
TaskCompleted == T("task_completed", 15, FALSE)
TaskFailed == T("task_failed", 12, FALSE)
UnknownAgentMsg == T("unknown_agent", 33, FALSE)

AgentNameLen(a) ==
    CASE a = "clovis" -> 6 [] a = "cua_cli" -> 7
      [] a = "cua_vision" -> 10 [] a = "screen_context" -> 14 [] OTHER -> 13

\* "Stopping chained execution because <agent> failed: <message>"; the
\* screen-context branch writes "screen context" whatever the agent field.
FailureMsg(step) ==
    T("stopping", 44 + AgentNameLen(step.agent) + step.message.len, FALSE)

(***************************************************************************)
(* Conversation memory                                                     *)
(***************************************************************************)
Mut_append_rapid_history(h, role, text, source) ==
    LET cleaned == _clean_text(text, EmptyText, HistoryTextMaxLen)
        entry == [role |-> role, source |-> source, text |-> cleaned]
    IN  IF cleaned.len = 0 \/ Len(h) >= HistoryMaxLen THEN h
        ELSE Append(h, entry)

\* _append_rapid_history on a deque(maxlen=32)
_append_rapid_history(h, role, text, source) ==
    LET cleaned == _clean_text(text, EmptyText, HistoryTextMaxLen)
        entry == [role |-> role, source |-> source, text |-> cleaned]
    IN  IF cleaned.len = 0 THEN h
        ELSE IF Len(h) >= HistoryMaxLen THEN Append(Tail(h), entry)
        ELSE Append(h, entry)

(***************************************************************************)
(* Direct-response sanitisation                                            *)
(***************************************************************************)
_looks_like_repeat_artifact(text) == text.artifact

Mut_summarize_completed_steps(steps) ==
    LET successful == SelectSeq(steps, LAMBDA s : s.success)
        messages == SelectSeq(successful,
                              LAMBDA s : _clean_text(s.message, EmptyText, 220).len > 0)
        n == Len(messages)
        msg(i) == _clean_text(messages[i].message, EmptyText, 220)
    IN  IF Len(successful) = 0 \/ n = 0 THEN TaskCompleted
        ELSE IF n = 1
             THEN T("Task completed: " \o msg(1).kind, 16 + msg(1).len, msg(1).artifact)
             ELSE T("Task completed: " \o msg(1).kind \o " Then: " \o msg(2).kind,
                    16 + msg(1).len + 7 + msg(2).len,
                    msg(1).artifact \/ msg(2).artifact)

\* _summarize_completed_steps: "Task completed: <m>" or
\* "Task completed: <m1> Then: <m2>" from the last one or two non-empty
\* messages (each cut to 220 characters) of the successful steps; the kind of
\* the text spells out which messages it was built from.
_summarize_completed_steps(steps) ==
    LET successful == SelectSeq(steps, LAMBDA s : s.success)
        messages == SelectSeq(successful,
                              LAMBDA s : _clean_text(s.message, EmptyText, 220).len > 0)
        n == Len(messages)
        msg(i) == _clean_text(messages[i].message, EmptyText, 220)
    IN  IF Len(successful) = 0 \/ n = 0 THEN TaskCompleted
        ELSE IF n = 1
             THEN T("Task completed: " \o msg(1).kind, 16 + msg(1).len, msg(1).artifact)
             ELSE T("Task completed: " \o msg(n - 1).kind \o " Then: " \o msg(n).kind,
                    16 + msg(n - 1).len + 7 + msg(n).len,
                    msg(n - 1).artifact \/ msg(n).artifact)

_finalize_direct_response_text(prompt, steps, text) ==
    LET cleaned == _clean_text(text, TaskCompleted, DirectTextMaxLen)
    IN  IF Len(steps) = 0 THEN cleaned
        ELSE IF prompt.repeat THEN cleaned
        ELSE IF _looks_like_repeat_artifact(cleaned) THEN _summarize_completed_steps(steps)
        ELSE cleaned

\* call_gemini line 611-619
DirectText(rr) ==
    _finalize_direct_response_text(
        user_prompt, chain_steps,
        _clean_text(rr.text, RapidFallback, DirectTextMaxLen))

Emit(dirs, text, by) == Append(dirs, [text |-> text, by |-> by])

(***************************************************************************)
(* Router Session: call_gemini                                             *)
(***************************************************************************)
AwaitPcs == {"route", "judge", "clovis", "status_start", "agent_exec", "status_finish"}
EndPcs == {"done", "raised", "cancelled"}

NoResult == [success |-> FALSE, how |-> "none", message |-> NoneText]
NoRouting == RR("none", "", NoneText, TRUE)
NoContext == [present |-> FALSE, from |-> 0]

\* _format_chain_state_for_prompt line 131-194: the "# Latest Screen Context"
\* rows are written when the context is truthy; generate_screen_context
\* (line 927-928) never leaves the summary row empty.  from is the index of
\* the ChainStep that produced the context.
_format_chain_state_for_prompt(screen_context) ==
    IF screen_context.present THEN screen_context ELSE NoContext

\* Entries that earlier sessions left in the conversation memory: the deque
\* is a module global, so a session starts with what its predecessors wrote.
\* Four free slots remain, so a session both fills the deque and overflows it.
OldEntry(role) == [role |-> role, source |-> IF role = "user" THEN "user" ELSE "rapid",
                   text |-> T("old", 10, FALSE)]
OldHistory == [i \in 1..(HistoryMaxLen - 4) |->
                  OldEntry(IF i % 2 = 1 THEN "user" ELSE "assistant")]

InitRouter ==
    /\ pc = "idle"
    /\ user_prompt = [text |-> NoneText, repeat |-> FALSE]
    /\ chain_steps = <<>>
    /\ seen_step_signatures = [sg \in Signatures |-> 0]
    /\ step_index = 0
    /\ routing_result = NoRouting
    /\ result = NoResult
    /\ latest_screen_context = NoContext
    /\ prompt_context = NoContext
    /\ _RAPID_CONVERSATION_HISTORY = OldHistory
    /\ _stored_screenshot = TRUE
    /\ cancel_requested = FALSE
    /\ stop_requested = FALSE
    /\ status_bubble = "hidden"
    /\ direct_responses = <<>>
    /\ router_calls = 0
    /\ run_log = <<>>
    /\ chain_sigs = <<>>
    /\ agent_end = "none"
    /\ last_step_end = "none"
    /\ raised_from = "none"
    /\ router_failure = "none"

Mut_LoopHasNext(i) == i + 1 <= _MAX_ROUTER_CHAIN_STEPS

\* for step_index in range(_MAX_ROUTER_CHAIN_STEPS): is there another pass?
LoopHasNext(i) == i + 1 < _MAX_ROUTER_CHAIN_STEPS

Mut_RepeatLimitReached(n) == n > _REPEATED_STEP_LIMIT

\* if seen_step_signatures[signature] >= _REPEATED_STEP_LIMIT
RepeatLimitReached(n) == n >= _REPEATED_STEP_LIMIT

Mut_StepFailureStops(step) == FALSE

\* if not step_result.get("success")
StepFailureStops(step) == ~step.success

\* get_stored_screenshot: the stored image, or ImageGrab.grab(), which can
\* raise where no display can be captured.
GrabOutcomes == IF _stored_screenshot THEN {"ok"} ELSE {"ok", "raises"}

Step(agent, task, success, message, source) ==
    [agent |-> agent, task |-> task, success |-> success,
     message |-> message, source |-> source]

\* call_gemini line 583-603: the user entry, then the first route_request.
StartSession ==
    /\ UNCHANGED <<now, appVars, serverVars, uiVars>>
    /\ pc = "idle"
    /\ \E rep \in BOOLEAN :
         /\ user_prompt' = [text |-> T("user", 12, FALSE), repeat |-> rep]
         /\ _RAPID_CONVERSATION_HISTORY' =
                _append_rapid_history(_RAPID_CONVERSATION_HISTORY, "user",
                                      T("user", 12, FALSE), "user")
    /\ router_calls' = 1
    /\ prompt_context' = _format_chain_state_for_prompt(latest_screen_context)
    /\ pc' = "route"
    /\ UNCHANGED <<chain_steps, seen_step_signatures, step_index, routing_result,
                   result, latest_screen_context, _stored_screenshot,
                   cancel_requested, stop_requested, status_bubble,
                   direct_responses, run_log, chain_sigs, agent_end, last_step_end,
                   raised_from, router_failure>>

\* route_request line 787: set_model_name is awaited outside the try block;
\* a failing overlay send leaves route_request as an exception.
RouteSetModelNameRaises ==
    /\ UNCHANGED <<now, appVars, serverVars, uiVars>>
    /\ UNCHANGED prompt_context
    /\ pc = "route" /\ ~cancel_requested
    /\ pc' = "raised"
    /\ raised_from' = "route_request"
    /\ UNCHANGED <<user_prompt, chain_steps, seen_step_signatures, step_index,
                   routing_result, result, latest_screen_context,
                   _RAPID_CONVERSATION_HISTORY, _stored_screenshot, cancel_requested,
                   stop_requested, status_bubble, direct_responses, router_calls,
                   run_log, chain_sigs, agent_end, last_step_end, router_failure>>

\* call_gemini line 610-626 for a direct result rr.
HandleDirect(rr) ==
    /\ routing_result' = rr
    /\ IF rr.args_ok
       THEN /\ direct_responses' = Emit(direct_responses, DirectText(rr), "router")
            /\ _RAPID_CONVERSATION_HISTORY' =
                   _append_rapid_history(_RAPID_CONVERSATION_HISTORY, "assistant",
                                         DirectText(rr), "rapid")
            /\ pc' = "done"
            /\ UNCHANGED raised_from
       ELSE /\ pc' = "raised"
            /\ raised_from' = "direct_response"
            /\ UNCHANGED <<direct_responses, _RAPID_CONVERSATION_HISTORY>>
    /\ UNCHANGED <<user_prompt, chain_steps, seen_step_signatures, step_index,
                   result, latest_screen_context, _stored_screenshot,
                   cancel_requested, stop_requested, status_bubble, router_calls,
                   run_log, chain_sigs, agent_end, last_step_end>>

\* The router answers with direct_response, or with nothing callable.
RouteDirect ==
    /\ UNCHANGED <<now, appVars, serverVars, uiVars>>
    /\ UNCHANGED prompt_context
    /\ pc = "route" /\ ~cancel_requested
    /\ \E rr \in DirectResults : HandleDirect(rr)
    /\ UNCHANGED router_failure

\* generate_content raises inside route_request.
RouteGenerationRaises ==
    /\ UNCHANGED <<now, appVars, serverVars, uiVars>>
    /\ UNCHANGED prompt_context
    /\ pc = "route" /\ ~cancel_requested
    /\ \E n \in ExcLens, art \in BOOLEAN : HandleDirect(GenerationFailedResult(n, art))
    /\ router_failure' = "raised"

\* A substituted model hands back something that is not a dict.
RouteNotADict ==
    /\ UNCHANGED <<now, appVars, serverVars, uiVars>>
    /\ UNCHANGED prompt_context
    /\ pc = "route" /\ ~cancel_requested
    /\ HandleDirect(InvalidShapeResult)
    /\ router_failure' = "not_a_dict"

\* call_gemini line 672-688 and 699-723: record the step, then stop on a
\* failure, go round the loop again, or leave the loop with the budget message.
\* dirs is the list of direct responses once the step itself has run.
AfterStep(step, sig, dirs) ==
    LET h1 == _append_rapid_history(_RAPID_CONVERSATION_HISTORY, "assistant",
                                    step.message, step.source)
    IN  /\ chain_steps' = Append(chain_steps, step)
        /\ chain_sigs' = Append(chain_sigs, sig)
        /\ last_step_end' = IF step.success THEN "success" ELSE "failed"
        /\ IF StepFailureStops(step)
           THEN /\ direct_responses' =
                       Emit(dirs, _clean_text(FailureMsg(step), TaskFailed, DirectTextMaxLen),
                            "router")
                /\ _RAPID_CONVERSATION_HISTORY' =
                       _append_rapid_history(h1, "assistant", FailureMsg(step), "rapid")
                /\ pc' = "done"
                /\ UNCHANGED <<step_index, router_calls, prompt_context>>
           ELSE IF LoopHasNext(step_index)
           THEN /\ step_index' = step_index + 1
                /\ router_calls' = router_calls + 1
                /\ direct_responses' = dirs
                /\ _RAPID_CONVERSATION_HISTORY' = h1
                /\ prompt_context' = _format_chain_state_for_prompt(latest_screen_context')
                /\ pc' = "route"
           ELSE /\ direct_responses' = Emit(dirs, MaxStepMsg, "router")
                /\ _RAPID_CONVERSATION_HISTORY' =
                       _append_rapid_history(h1, "assistant", MaxStepMsg, "rapid")
                /\ pc' = "done"
                /\ UNCHANGED <<step_index, router_calls, prompt_context>>

\* call_gemini line 628-629
Counted(rr) ==
    [seen_step_signatures EXCEPT ![_routing_signature(rr)] = @ + 1]

\* call_gemini line 630-639: the signature was requested too often.
RouteRepeated ==
    /\ UNCHANGED <<now, appVars, serverVars, uiVars>>
    /\ UNCHANGED prompt_context
    /\ pc = "route" /\ ~cancel_requested
    /\ \E rr \in DelegatedResults :
         /\ RepeatLimitReached(Counted(rr)[_routing_signature(rr)])
         /\ routing_result' = rr
         /\ seen_step_signatures' = Counted(rr)
    /\ direct_responses' = Emit(direct_responses, RepeatedMsg, "router")
    /\ _RAPID_CONVERSATION_HISTORY' =
           _append_rapid_history(_RAPID_CONVERSATION_HISTORY, "assistant",
                                 RepeatedMsg, "rapid")
    /\ pc' = "done"
    /\ agent_end' = "none"
    /\ UNCHANGED <<user_prompt, chain_steps, step_index, result,
                   latest_screen_context, _stored_screenshot, cancel_requested,
                   stop_requested, status_bubble, router_calls, run_log, chain_sigs,
                   last_step_end, raised_from, router_failure>>

\* call_gemini line 641-654: request_screen_context; the screenshot is taken
\* outside the try block, then the Screen-Judge call is awaited.
RouteScreenContext ==
    /\ UNCHANGED <<now, appVars, serverVars, uiVars>>
    /\ UNCHANGED prompt_context
    /\ pc = "route" /\ ~cancel_requested
    /\ \E rr \in DelegatedResults, grab \in GrabOutcomes :
         /\ rr.agent = "screen_context"
         /\ ~RepeatLimitReached(Counted(rr)[_routing_signature(rr)])
         /\ routing_result' = rr
         /\ seen_step_signatures' = Counted(rr)
         /\ IF grab = "raises"
            THEN /\ pc' = "raised"
                 /\ raised_from' = "screen_context"
                 /\ UNCHANGED <<run_log, _stored_screenshot>>
            ELSE /\ pc' = "judge"
                 /\ run_log' = Append(run_log, _routing_signature(rr))
                 /\ _stored_screenshot' = FALSE
                 /\ UNCHANGED raised_from
    /\ agent_end' = "none"
    /\ UNCHANGED <<user_prompt, chain_steps, step_index, result,
                   latest_screen_context, _RAPID_CONVERSATION_HISTORY,
                   cancel_requested, stop_requested, status_bubble, direct_responses,
                   router_calls, chain_sigs, last_step_end, router_failure>>

\* _run_routed_agent_step line 428-432: invoke_clovis; the screenshot is taken
\* outside the try block, then generate_clovis_response is awaited.
RouteClovis ==
    /\ UNCHANGED <<now, appVars, serverVars, uiVars>>
    /\ UNCHANGED prompt_context
    /\ pc = "route" /\ ~cancel_requested
    /\ \E rr \in DelegatedResults, grab \in GrabOutcomes :
         /\ rr.agent = "clovis"
         /\ ~RepeatLimitReached(Counted(rr)[_routing_signature(rr)])
         /\ routing_result' = rr
         /\ seen_step_signatures' = Counted(rr)
         /\ IF grab = "raises"
            THEN /\ pc' = "raised"
                 /\ raised_from' = "agent_step"
                 /\ UNCHANGED <<run_log, _stored_screenshot>>
            ELSE /\ pc' = "clovis"
                 /\ run_log' = Append(run_log, _routing_signature(rr))
                 /\ _stored_screenshot' = FALSE
                 /\ UNCHANGED raised_from
    /\ agent_end' = "none"
    /\ UNCHANGED <<user_prompt, chain_steps, step_index, result,
                   latest_screen_context, _RAPID_CONVERSATION_HISTORY,
                   cancel_requested, stop_requested, status_bubble, direct_responses,
                   router_calls, chain_sigs, last_step_end, router_failure>>

\* _run_routed_agent_step line 483, 535: cua_cli and cua_vision first show the status bubble and await that overlay send.
RouteStatusAgent ==
    /\ UNCHANGED <<now, appVars, serverVars, uiVars>>
    /\ UNCHANGED prompt_context
    /\ pc = "route" /\ ~cancel_requested
    /\ \E rr \in DelegatedResults :
         /\ rr.agent \in StatusAgents
         /\ ~RepeatLimitReached(Counted(rr)[_routing_signature(rr)])
         /\ routing_result' = rr
         /\ seen_step_signatures' = Counted(rr)
    /\ status_bubble' = "shown"
    /\ agent_end' = "none"
    /\ pc' = "status_start"
    /\ UNCHANGED <<user_prompt, chain_steps, step_index, result,
                   latest_screen_context, _RAPID_CONVERSATION_HISTORY,
                   _stored_screenshot, cancel_requested, stop_requested,
                   direct_responses, router_calls, run_log, chain_sigs,
                   last_step_end, raised_from, router_failure>>

\* _run_routed_agent_step line 559-565: no agent of that name; the step
\* fails at once, without running anything.
RouteUnknownAgent ==
    /\ UNCHANGED <<now, appVars, serverVars, uiVars>>
    /\ UNCHANGED latest_screen_context
    /\ pc = "route" /\ ~cancel_requested
    /\ \E rr \in DelegatedResults :
         /\ rr.agent \notin StatusAgents \cup {"clovis", "screen_context"}
         /\ ~RepeatLimitReached(Counted(rr)[_routing_signature(rr)])
         /\ routing_result' = rr
         /\ seen_step_signatures' = Counted(rr)
         /\ AfterStep(Step(rr.agent, _routing_task_text(rr), FALSE,
                           UnknownAgentMsg, "rapid"),
                      _routing_signature(rr), direct_responses)
    /\ agent_end' = "none"
    /\ UNCHANGED <<user_prompt, result, _stored_screenshot,
                   cancel_requested, stop_requested, status_bubble, run_log,
                   raised_from, router_failure>>

\* Lengths of the text of an exception or error raised inside a step.
ErrLens == {20, 2000}

\* The error text of a failed result is long, that of a raised exception short.
AgentErrLen(how) == IF how = "failed" THEN 2000 ELSE 20

\* call_gemini line 642, 658: judge_task = task or user_prompt
JudgeTask(rr) == IF rr.task = "" THEN "<user prompt>" ELSE WsNormal(rr.task)

\* call_gemini line 649-688: the Screen-Judge call returns or raises.
JudgeReturn ==
    /\ UNCHANGED <<now, appVars, serverVars, uiVars>>
    /\ pc = "judge" /\ ~cancel_requested
    /\ \E how \in {"success", "raised"}, n \in ErrLens :
         /\ agent_end' = how
         /\ latest_screen_context' =
                IF how = "success" THEN [present |-> TRUE, from |-> Len(chain_steps) + 1]
                ELSE latest_screen_context
         /\ AfterStep(
                Step("screen_context", JudgeTask(routing_result), how = "success",
                     IF how = "success" THEN T("screen_summary", 20, FALSE)
                     ELSE _clean_text(T("judge_error", n, FALSE),
                                      T("judge_error", 33, FALSE), DirectTextMaxLen),
                     "screen_judge"),
                _routing_signature(routing_result), direct_responses)
    /\ UNCHANGED <<user_prompt, seen_step_signatures, routing_result, result,
                   _stored_screenshot, cancel_requested, stop_requested,
                   status_bubble, run_log, raised_from, router_failure>>

\* The direct_response calls the CLOVIS model makes through CLOVIS_TOOL_MAP
\* (generate_clovis_response line 958-963).
RECURSIVE ClovisDirects(_, _)
ClovisDirects(dirs, k) ==
    IF k = 0 THEN dirs
    ELSE ClovisDirects(Emit(dirs, T("clovis_text", 10, FALSE), "clovis"), k - 1)

\* _run_routed_agent_step line 431-452: generate_clovis_response returns, or
\* raises (a failed call, an invalid tool) after any number of tool calls.
ClovisReturn ==
    /\ UNCHANGED <<now, appVars, serverVars, uiVars>>
    /\ UNCHANGED latest_screen_context
    /\ pc = "clovis" /\ ~cancel_requested
    /\ \E how \in {"success", "raised"}, k \in 0..MaxClovisDirectCalls, n \in ErrLens :
         /\ agent_end' = how
         /\ AfterStep(
                Step("clovis", _routing_task_text(routing_result), how = "success",
                     IF how = "success" THEN T("clovis_summary", 20, FALSE)
                     ELSE _clean_text(T("clovis_error", n, FALSE),
                                      T("clovis_error", 19, FALSE), DirectTextMaxLen),
                     "clovis"),
                _routing_signature(routing_result),
                ClovisDirects(direct_responses, k))
    /\ UNCHANGED <<user_prompt, seen_step_signatures, routing_result, result,
                   _stored_screenshot, cancel_requested,
                   stop_requested, status_bubble, run_log, raised_from,
                   router_failure>>

\* Constructors that can raise: CLIAgent() when the CLI bundle is not built
\* (_check_cli_built), VisionAgent() when no API key is configured.
CtorOutcomes(agent) == {"ok", "raises"}

\* _run_routed_agent_step line 484-508, 536-540: after the bubble is
\* shown the agent object is built (and, for cua_vision, the screenshot taken)
\* outside the try block; then execute() is awaited.  VisionAgent.execute
\* clears the stop flag as it starts.
StatusStartReturn ==
    /\ UNCHANGED <<now, appVars, serverVars, uiVars>>
    /\ UNCHANGED prompt_context
    /\ pc = "status_start" /\ ~cancel_requested
    /\ \E ctor \in CtorOutcomes(routing_result.agent),
          grab \in (IF routing_result.agent = "cua_vision" THEN GrabOutcomes ELSE {"ok"}) :
         IF ctor = "raises" \/ grab = "raises"
         THEN /\ pc' = "raised"
              /\ raised_from' = "agent_step"
              /\ UNCHANGED <<run_log, stop_requested>>
              /\ _stored_screenshot' =
                     IF routing_result.agent = "cua_vision" /\ grab = "ok"
                     THEN FALSE ELSE _stored_screenshot
         ELSE /\ pc' = "agent_exec"
              /\ run_log' = Append(run_log, _routing_signature(routing_result))
              /\ stop_requested' =
                     IF routing_result.agent = "cua_vision" THEN FALSE ELSE stop_requested
              /\ _stored_screenshot' =
                     IF routing_result.agent = "cua_vision" THEN FALSE ELSE _stored_screenshot
              /\ UNCHANGED raised_from
    /\ UNCHANGED <<user_prompt, chain_steps, seen_step_signatures, step_index,
                   routing_result, result, latest_screen_context,
                   _RAPID_CONVERSATION_HISTORY, cancel_requested, status_bubble,
                   direct_responses, router_calls, chain_sigs, agent_end,
                   last_step_end, router_failure>>

\* _run_routed_agent_step line 507-525, 539-550: execute() returns a
\* result or raises an Exception; either way the completion of the bubble is
\* issued and awaited.
AgentExecReturn ==
    /\ UNCHANGED <<now, appVars, serverVars, uiVars>>
    /\ UNCHANGED prompt_context
    /\ pc = "agent_exec" /\ ~cancel_requested
    /\ \E how \in {"success", "failed", "raised"} :
         /\ agent_end' = how
         /\ result' = [success |-> how = "success", how |-> how,
                       message |-> IF how = "success" THEN T("agent_result", 20, FALSE)
                                   ELSE _clean_text(T("agent_error", AgentErrLen(how), FALSE),
                                                    T("agent_error", 16, FALSE),
                                                    CompletionTextMaxLen)]
    /\ status_bubble' = "completed"
    /\ pc' = "status_finish"
    /\ UNCHANGED <<user_prompt, chain_steps, seen_step_signatures, step_index,
                   routing_result, latest_screen_context,
                   _RAPID_CONVERSATION_HISTORY, _stored_screenshot, cancel_requested,
                   stop_requested, direct_responses, router_calls, run_log,
                   chain_sigs, last_step_end, raised_from, router_failure>>

SourceOf(agent) == agent

\* _run_routed_agent_step line 526-532, 551-557: the step result.
StatusFinishReturn ==
    /\ UNCHANGED <<now, appVars, serverVars, uiVars>>
    /\ UNCHANGED latest_screen_context
    /\ pc = "status_finish" /\ ~cancel_requested
    /\ AfterStep(Step(routing_result.agent, routing_result.task, result.success,
                      result.message, SourceOf(routing_result.agent)),
                 _routing_signature(routing_result), direct_responses)
    /\ UNCHANGED <<user_prompt, seen_step_signatures, routing_result, result,
                   _stored_screenshot, cancel_requested,
                   stop_requested, status_bubble, run_log, agent_end, raised_from,
                   router_failure>>

\* app.py stop_all while the session is suspended: request_cua_vision_stop()
\* and task.cancel().
StopAllDuringSession ==
    /\ UNCHANGED <<now, appVars, serverVars, uiVars>>
    /\ UNCHANGED prompt_context
    /\ pc \in AwaitPcs /\ ~cancel_requested
    /\ cancel_requested' = TRUE
    /\ stop_requested' = TRUE
    /\ UNCHANGED <<pc, user_prompt, chain_steps, seen_step_signatures, step_index,
                   routing_result, result, latest_screen_context,
                   _RAPID_CONVERSATION_HISTORY, _stored_screenshot, status_bubble,
                   direct_responses, router_calls, run_log, chain_sigs, agent_end,
                   last_step_end, raised_from, router_failure>>

\* The cancelled task resumes: CancelledError is thrown at the await it was
\* suspended in; no handler on the way catches it (except Exception does not,
\* line 463, 512 and 541 re-raise) until _run_overlay_task.
CancelledResume ==
    /\ UNCHANGED <<now, appVars, serverVars, uiVars>>
    /\ UNCHANGED prompt_context
    /\ pc \in AwaitPcs /\ cancel_requested
    /\ pc' = "cancelled"
    /\ agent_end' = IF pc \in {"agent_exec", "clovis", "judge"} THEN "cancelled" ELSE agent_end
    /\ UNCHANGED <<user_prompt, chain_steps, seen_step_signatures, step_index,
                   routing_result, result, latest_screen_context,
                   _RAPID_CONVERSATION_HISTORY, _stored_screenshot, cancel_requested,
                   stop_requested, status_bubble, direct_responses, router_calls,
                   run_log, chain_sigs, last_step_end, raised_from, router_failure>>

Next ==
    \/ StartSession
    \/ RouteSetModelNameRaises
    \/ RouteDirect
    \/ RouteGenerationRaises
    \/ RouteNotADict
    \/ RouteRepeated
    \/ RouteScreenContext
    \/ RouteClovis
    \/ RouteStatusAgent
    \/ RouteUnknownAgent
    \/ JudgeReturn
    \/ ClovisReturn
    \/ StatusStartReturn
    \/ AgentExecReturn
    \/ StatusFinishReturn
    \/ StopAllDuringSession
    \/ CancelledResume

(***************************************************************************)
(* Properties of the Router Session                                        *)
(***************************************************************************)
Count(seq, x) == Cardinality({i \in 1..Len(seq) : seq[i] = x})

LastDirect == direct_responses[Len(direct_responses)]

LastEntry == _RAPID_CONVERSATION_HISTORY[Len(_RAPID_CONVERSATION_HISTORY)]

StoppingDirects == {i \in 1..Len(direct_responses) :
                       direct_responses[i].text.kind = "stopping"}

\* C1: a session that has ended without being cancelled has made exactly one
\* direct_response call, counting the calls of the router and those of its
\* delegated steps.
C1_ExactlyOneDirectResponse ==
    pc \in EndPcs \ {"cancelled"} => Len(direct_responses) = 1

\* C2: chain_steps never holds more than six entries, the router is consulted
\* at most six times, and a session whose sixth step succeeded has ended with
\* the fixed step-budget direct response after exactly six consultations.
C2_AtMostSixSteps ==
    /\ Len(chain_steps) <= _MAX_ROUTER_CHAIN_STEPS
    /\ router_calls <= _MAX_ROUTER_CHAIN_STEPS
    /\ (/\ Len(chain_steps) = _MAX_ROUTER_CHAIN_STEPS
        /\ chain_steps[_MAX_ROUTER_CHAIN_STEPS].success)
       => /\ pc = "done"
          /\ LastDirect = [text |-> MaxStepMsg, by |-> "router"]
          /\ router_calls = _MAX_ROUTER_CHAIN_STEPS

C2_SixStepsRan ==
    /\ pc = "done"
    /\ Len(chain_steps) = 6
    /\ \A i \in 1..6 : chain_steps[i].success
    /\ router_calls = 6
    /\ LastDirect.text.kind = "max_steps"

\* C3: no signature is run more than twice; once a signature has been
\* requested a third time the session is over, its last direct response is the
\* "kept repeating" message, the agent was not run again, and chain_steps
\* holds exactly the two earlier steps of that signature.
C3_SameSignatureAtMostTwice ==
    \A sg \in Signatures :
        /\ Count(run_log, sg) <= 2
        /\ Count(chain_sigs, sg) <= 2
        /\ seen_step_signatures[sg] >= 3
           => /\ seen_step_signatures[sg] = 3
              /\ pc = "done"
              /\ _routing_signature(routing_result) = sg
              /\ LastDirect = [text |-> RepeatedMsg, by |-> "router"]
              /\ Count(run_log, sg) = 2
              /\ Count(chain_sigs, sg) = 2
              /\ Len(chain_sigs) = Len(chain_steps)

\* The third request came after two steps whose task texts differ in case and
\* spacing only, with a step of another signature between them.
C3_ThirdRequestRefused ==
    /\ pc = "done"
    /\ LastDirect.text.kind = "kept_repeating"
    /\ \E i, j \in 1..Len(chain_steps) :
         /\ i + 1 < j
         /\ chain_sigs[i] = chain_sigs[j]
         /\ chain_steps[i].task # chain_steps[j].task
         /\ seen_step_signatures[chain_sigs[i]] = 3

\* C4: once a step has ended with success = false, that step is the last
\* entry of chain_steps, the session is over, its last direct response is the
\* one "Stopping chained execution because ..." message, and neither the
\* router nor another step ran after the failing step.
C4_FailedStepEndsSession ==
    /\ \A i \in 1..Len(chain_steps) :
         ~chain_steps[i].success => (i = Len(chain_steps) /\ last_step_end = "failed")
    /\ last_step_end = "failed"
       => /\ pc = "done"
          /\ ~chain_steps[Len(chain_steps)].success
          /\ LastDirect.text.kind = "stopping"
          /\ LastDirect.by = "router"
          /\ LastDirect.text.len <= DirectTextMaxLen
          /\ Cardinality(StoppingDirects) = 1
          /\ router_calls = Len(chain_steps)
          /\ Len(run_log) <= Len(chain_steps)
    /\ last_step_end # "failed" => StoppingDirects = {}

\* The Screen-Judge raised in the third step of a session.
C4_JudgeRaised ==
    /\ last_step_end = "failed"
    /\ agent_end = "raised"
    /\ routing_result.agent = "screen_context"
    /\ Len(chain_steps) = 3
    /\ pc = "done"

\* C5: no failure of a routed step leaves _run_routed_agent_step as an
\* exception.
C5_NoRaiseAcrossRouterBoundary ==
    raised_from # "agent_step"

\* C6: once the agent of a cua_cli or cua_vision step has terminated, by a
\* result, an exception or a cancellation, the completion of the status
\* bubble of the step has been issued.
C6_StatusBubbleCompletes ==
    (routing_result.agent \in StatusAgents /\ agent_end # "none")
       => status_bubble = "completed"

\* C7: when route_request raised inside the model call or returned no dict,
\* the session is over, its last direct response is the router's fallback (the
\* error text in at most 420 characters, or the invalid-shape sentence), and
\* the conversation memory ends with that text as an assistant entry.
C7_RouterFailureFallback ==
    router_failure # "none"
       => /\ pc = "done"
          /\ LastDirect.by = "router"
          /\ LastDirect.text.kind =
                 (IF router_failure = "raised" THEN "router_error" ELSE "invalid_shape")
          /\ LastDirect.text.len <= DirectTextMaxLen
          /\ LastEntry = [role |-> "assistant", source |-> "rapid",
                          text |-> LastDirect.text]

JudgeSignature == _routing_signature(RR("screen_context", "", NoneText, TRUE))

\* Screen-Judge calls made so far, requests for screen context the repeat
\* limit let through, and ChainSteps the Screen-Judge produced.
JudgeCalls == Count(run_log, JudgeSignature)

JudgeRequests ==
    IF RepeatLimitReached(seen_step_signatures[JudgeSignature])
    THEN _REPEATED_STEP_LIMIT - 1
    ELSE seen_step_signatures[JudgeSignature]

JudgeSteps == {i \in 1..Len(chain_steps) : chain_steps[i].agent = "screen_context"}

\* C16: every request for screen context that the repeat limit lets through
\* has had exactly one Screen-Judge call, made before any further agent or
\* router call; every successful Screen-Judge step has left a context
\* attached to the session, and while the router is being called the latest
\* attached context is in its prompt.
C16_ScreenContextJudgedOnce ==
    /\ JudgeCalls = JudgeRequests
    /\ pc = "judge" => /\ run_log[Len(run_log)] = JudgeSignature
                       /\ JudgeCalls = Cardinality(JudgeSteps) + 1
    /\ pc \in {"route", "done"} => JudgeCalls = Cardinality(JudgeSteps)
    /\ \A i \in JudgeSteps :
           chain_steps[i].success
              => latest_screen_context.present /\ latest_screen_context.from >= i
    /\ (pc = "route" /\ latest_screen_context.present)
           => prompt_context = latest_screen_context

\* The session has ended with the direct response of a router result.
EndedByRouterText == pc = "done" /\ routing_result.agent = "direct"

\* The messages of the successful ChainSteps, as the summary quotes them.
SuccessfulMessages ==
    LET successful == SelectSeq(chain_steps, LAMBDA s : s.success /\ s.message.len > 0)
    IN  [i \in 1..Len(successful) |->
             IF successful[i].message.len > 220
             THEN [successful[i].message EXCEPT !.len = 220]
             ELSE successful[i].message]

\* "Task completed: " followed by the last one or two of these messages.
SummaryOfLastSteps(text) ==
    LET m == SuccessfulMessages
        n == Len(m)
    IN  /\ n >= 1
        /\ text.kind = IF n = 1 THEN "Task completed: " \o m[1].kind
                       ELSE "Task completed: " \o m[n - 1].kind \o " Then: " \o m[n].kind
        /\ text.len = IF n = 1 THEN 16 + m[1].len
                      ELSE 16 + m[n - 1].len + 7 + m[n].len

SessionEntries ==
    SelectSeq(_RAPID_CONVERSATION_HISTORY, LAMBDA e : e.text.kind # "old")

\* The entry holds this text, cut to the 600 characters the memory keeps.
HoldsText(entry, text) ==
    /\ entry.text.kind = text.kind
    /\ entry.text.len = IF text.len > HistoryTextMaxLen THEN HistoryTextMaxLen ELSE text.len

DuplicateInputWindow == 12
DirectResponseHold == 40
TickStep == DirectResponseHold \div 2

\* Inputs as the overlay sends them, and what str.strip makes of them.
RawInputs == {"  ", " go ", "stop"}

Strip(raw) == IF raw = "  " THEN "" ELSE IF raw = " go " THEN "go" ELSE raw

NoItem == [id |-> 0, time |-> 0, kind |-> "none"]
NoConsumer == [pc |-> "none", item |-> NoItem, last_time |-> 0, wake |-> 0]

NoInput == [text |-> "", outcome |-> "none", unfinished |-> 0, cancelling |-> FALSE]

InitApp ==
    /\ now = 1
    /\ current_task = 0
    /\ tasks = <<>>
    /\ last_overlay_text = ""
    /\ last_overlay_ts = 0
    /\ ACTION_QUEUE = <<>>
    /\ _ACTION_TASK = NoConsumer
    /\ cancelled_consumers = {}
    /\ _LAST_DIRECT_RESPONSE = 0
    /\ _WAITED_AFTER_DIRECT_RESPONSE = TRUE
    /\ _ACTIVE_TEXT_RECTS = {}
    /\ inputs_handled = 0
    /\ last_input = NoInput
    /\ started_count = 0
    /\ queued_count = 0
    /\ executed = {}
    /\ killed = {}
    /\ held_at_stop = {}
    /\ stops = 0

queueVars == <<ACTION_QUEUE, _ACTION_TASK, cancelled_consumers,
               _LAST_DIRECT_RESPONSE, _WAITED_AFTER_DIRECT_RESPONSE,
               _ACTIVE_TEXT_RECTS, queued_count, executed>>

taskVars == <<current_task, tasks, last_overlay_text, last_overlay_ts,
              inputs_handled, last_input, started_count>>

\* time passes
Tick ==
    /\ now + TickStep <= MaxClock
    /\ now' = now + TickStep
    /\ UNCHANGED <<routerVars, uiVars, stop_requested, appVars, serverVars>>

Mut_TaskDone(t) == t.st = "done" \/ t.cancel

\* asyncio.Task.done(): the coroutine has returned or raised; a task whose
\* cancellation was only requested is not done.
TaskDone(t) == t.st = "done"

\* a guard that looks at current_task alone
Mut_TaskBusy(ct, ts) == ct # 0

\* current_task and not current_task.done()
TaskBusy(ct, ts) == ct # 0 /\ ~TaskDone(ts[ct])

Unfinished == {i \in 1..Len(tasks) : tasks[i].st # "done"}

\* handle_overlay_input: the lock is free whenever a handler runs (no holder
\* awaits while holding it), so the handler runs without suspending.
handle_overlay_input ==
    /\ inputs_handled < MaxInputs
    /\ inputs_handled' = inputs_handled + 1
    /\ \E raw \in RawInputs :
         LET text == Strip(raw)
             entry(outcome) == [text |-> text, outcome |-> outcome,
                                unfinished |-> Cardinality(Unfinished),
                                cancelling |-> \E i \in Unfinished : tasks[i].cancel]
         IN  IF text = ""
             THEN /\ last_input' = entry("empty")
                  /\ UNCHANGED <<current_task, tasks, last_overlay_text, last_overlay_ts,
                                 started_count>>
             ELSE IF text = last_overlay_text /\ now - last_overlay_ts < DuplicateInputWindow
             THEN /\ last_input' = entry("duplicate")
                  /\ UNCHANGED <<current_task, tasks, last_overlay_text, last_overlay_ts,
                                 started_count>>
             ELSE /\ last_overlay_text' = text
                  /\ last_overlay_ts' = now
                  /\ IF TaskBusy(current_task, tasks)
                     THEN /\ last_input' = entry("rejected")
                          /\ UNCHANGED <<current_task, tasks, started_count>>
                     ELSE /\ last_input' = entry("started")
                          /\ started_count' = started_count + 1
                          /\ tasks' = Append(tasks, [st |-> "pending", cancel |-> FALSE])
                          /\ current_task' = Len(tasks) + 1
    /\ UNCHANGED <<routerVars, uiVars, stop_requested, now, queueVars, killed, held_at_stop,
                   stops, serverVars>>

Mut_clear(q) == q

\* deque.clear()
clear(q) == <<>>

\* _ACTION_TASK.cancel(): the consumer gets CancelledError when it next resumes.
CancelConsumer(zombies, consumer) ==
    IF consumer.pc \in {"none", "done"} THEN zombies ELSE zombies \cup {consumer}

QueuedIds == {ACTION_QUEUE[i].id : i \in 1..Len(ACTION_QUEUE)}

HeldIds == {c.item.id : c \in {c \in cancelled_consumers \cup {_ACTION_TASK} :
                                   c.item.id # 0 /\ c.item.id \notin executed}}

\* stop_all (app.py) with stop_all_actions (clovis/tools.py) and the
\* cua_vision request_stop / reset_state, which leaves the stop flag alone.
stop_all ==
    /\ stops < MaxStops
    /\ stops' = stops + 1
    /\ stop_requested' = TRUE
    /\ tasks' = IF TaskBusy(current_task, tasks)
                THEN [tasks EXCEPT ![current_task].cancel = TRUE]
                ELSE tasks
    /\ ACTION_QUEUE' = clear(ACTION_QUEUE)
    /\ cancelled_consumers' = CancelConsumer(cancelled_consumers, _ACTION_TASK)
    /\ _ACTION_TASK' = NoConsumer
    /\ _LAST_DIRECT_RESPONSE' = 0
    /\ _WAITED_AFTER_DIRECT_RESPONSE' = TRUE
    /\ _ACTIVE_TEXT_RECTS' = {}
    /\ killed' = killed \cup QueuedIds \cup HeldIds
    /\ held_at_stop' = held_at_stop \cup HeldIds
    /\ UNCHANGED <<routerVars, uiVars, now, current_task, last_overlay_text, last_overlay_ts,
                   inputs_handled, last_input, started_count, queued_count, executed,
                   serverVars>>

\* The first step of a task made by create_task: _run_overlay_task enters its
\* try block and call_gemini runs to its first await.  A task cancelled before
\* it starts never runs, so its finally block does not run either.
TaskFirstStep ==
    /\ \E i \in 1..Len(tasks) :
         /\ tasks[i].st = "pending"
         /\ tasks' = [tasks EXCEPT ![i].st = IF tasks[i].cancel THEN "done" ELSE "running"]
    /\ UNCHANGED <<routerVars, uiVars, stop_requested, now, current_task, last_overlay_text,
                   last_overlay_ts, inputs_handled, last_input, started_count,
                   queueVars, killed, held_at_stop, stops, serverVars>>

\* _run_overlay_task leaves call_gemini (a return, an exception, or the
\* CancelledError of a requested cancellation) and runs its finally block.
TaskReturns ==
    /\ \E i \in 1..Len(tasks) :
         /\ tasks[i].st = "running"
         /\ tasks' = [tasks EXCEPT ![i].st = "done"]
         /\ current_task' = IF current_task = i THEN 0 ELSE current_task
    /\ UNCHANGED <<routerVars, uiVars, stop_requested, now, last_overlay_text,
                   last_overlay_ts, inputs_handled, last_input, started_count,
                   queueVars, killed, held_at_stop, stops, serverVars>>

\* VisionAgent.execute line 112-113, run by a session that is not cancelled.
TaskStartsVision ==
    /\ \E i \in 1..Len(tasks) : tasks[i].st = "running" /\ ~tasks[i].cancel
    /\ stop_requested
    /\ stop_requested' = FALSE
    /\ UNCHANGED <<routerVars, uiVars, now, appVars, serverVars>>

(***************************************************************************)
(* agents/clovis/tools.py: the draw action queue                           *)
(***************************************************************************)
\* The draw actions a CLOVIS answer may hold: the time on its timeline and
\* whether the function is the one that creates a text panel.
ActionChoices == { [time |-> 0, kind |-> "text"], [time |-> 6, kind |-> "box"] }

\* if _LAST_DIRECT_RESPONSE and not _WAITED_AFTER_DIRECT_RESPONSE
DirectWaitPending(last, waited) == last # 0 /\ ~waited

\* _run_queue_async line 153-156, with the action in hand: sleep for the
\* delay if there is one, else start the action's function.
AfterDirectWait(item, last_time) ==
    IF item.time - last_time > 0
    THEN /\ _ACTION_TASK' = [pc |-> "sleep_delay", item |-> item, last_time |-> last_time,
                             wake |-> now + (item.time - last_time)]
         /\ UNCHANGED executed
    ELSE /\ _ACTION_TASK' = [pc |-> "exec", item |-> item, last_time |-> last_time,
                             wake |-> 0]
         /\ executed' = executed \cup {item.id}

\* _run_queue_async line 137-151: the top of the loop, up to the next await.
ConsumerLoop(last_time) ==
    IF ACTION_QUEUE = <<>>
    THEN /\ _ACTION_TASK' = [pc |-> "sleep_empty", item |-> NoItem, last_time |-> 0,
                             wake |-> 0]
         /\ UNCHANGED <<ACTION_QUEUE, executed>>
    ELSE /\ ACTION_QUEUE' = Tail(ACTION_QUEUE)
         /\ IF DirectWaitPending(_LAST_DIRECT_RESPONSE, _WAITED_AFTER_DIRECT_RESPONSE)
            THEN /\ _ACTION_TASK' =
                        IF now - _LAST_DIRECT_RESPONSE < DirectResponseHold
                        THEN [pc |-> "sleep_direct", item |-> Head(ACTION_QUEUE),
                              last_time |-> last_time,
                              wake |-> _LAST_DIRECT_RESPONSE + DirectResponseHold]
                        ELSE [pc |-> "hide", item |-> Head(ACTION_QUEUE),
                              last_time |-> last_time, wake |-> 0]
                 /\ UNCHANGED executed
            ELSE AfterDirectWait(Head(ACTION_QUEUE), last_time)

\* queue_action, called by the CLOVIS tool wrappers of a running session:
\* append, then _ensure_queue_processor.
queue_action ==
    /\ \E i \in 1..Len(tasks) : tasks[i].st = "running" /\ ~tasks[i].cancel
    /\ queued_count < MaxActions
    /\ queued_count' = queued_count + 1
    /\ \E a \in ActionChoices :
         ACTION_QUEUE' = Append(ACTION_QUEUE,
                                [id |-> queued_count + 1, time |-> a.time, kind |-> a.kind])
    /\ _ACTION_TASK' = IF _ACTION_TASK.pc \in {"none", "done"}
                       THEN [pc |-> "created", item |-> NoItem, last_time |-> 0,
                             wake |-> 0]
                       ELSE _ACTION_TASK
    /\ UNCHANGED <<routerVars, uiVars, stop_requested, now, taskVars, cancelled_consumers,
                   _LAST_DIRECT_RESPONSE, _WAITED_AFTER_DIRECT_RESPONSE,
                   _ACTIVE_TEXT_RECTS, executed, killed, held_at_stop, stops,
                   serverVars>>

\* direct_response, called by a running session: the text is dispatched at
\* once, not through the queue.
direct_response ==
    /\ \E i \in 1..Len(tasks) : tasks[i].st = "running" /\ ~tasks[i].cancel
    /\ _LAST_DIRECT_RESPONSE' = now
    /\ _WAITED_AFTER_DIRECT_RESPONSE' = FALSE
    /\ UNCHANGED <<routerVars, uiVars, stop_requested, now, taskVars, ACTION_QUEUE,
                   _ACTION_TASK, cancelled_consumers, _ACTIVE_TEXT_RECTS,
                   queued_count, executed, killed, held_at_stop, stops, serverVars>>

\* The consumer starts, or wakes from the 0.05 s sleep of an empty queue.
ConsumerWakes ==
    /\ _ACTION_TASK.pc \in {"created", "sleep_empty"}
    /\ ConsumerLoop(_ACTION_TASK.last_time)
    /\ UNCHANGED <<routerVars, uiVars, stop_requested, now, taskVars, cancelled_consumers,
                   _LAST_DIRECT_RESPONSE, _WAITED_AFTER_DIRECT_RESPONSE,
                   _ACTIVE_TEXT_RECTS, queued_count, killed, held_at_stop, stops,
                   serverVars>>

\* line 149: the sleep that keeps a direct response on screen is over.
ConsumerDirectWaitOver ==
    /\ _ACTION_TASK.pc = "sleep_direct"
    /\ now >= _ACTION_TASK.wake
    /\ _ACTION_TASK' = [_ACTION_TASK EXCEPT !.pc = "hide", !.wake = 0]
    /\ UNCHANGED <<routerVars, uiVars, stop_requested, now, taskVars, ACTION_QUEUE,
                   cancelled_consumers, _LAST_DIRECT_RESPONSE,
                   _WAITED_AFTER_DIRECT_RESPONSE, _ACTIVE_TEXT_RECTS, queued_count,
                   executed, killed, held_at_stop, stops, serverVars>>

\* line 150-156: _hide_command_overlay returns, or its send raises and ends
\* the consumer task.
ConsumerHideReturns ==
    /\ _ACTION_TASK.pc = "hide"
    /\ \E outcome \in {"ok", "raises"} :
         IF outcome = "ok"
         THEN /\ _WAITED_AFTER_DIRECT_RESPONSE' = TRUE
              /\ AfterDirectWait(_ACTION_TASK.item, _ACTION_TASK.last_time)
         ELSE /\ _ACTION_TASK' = [pc |-> "done", item |-> NoItem, last_time |-> 0,
                                  wake |-> 0]
              /\ UNCHANGED <<_WAITED_AFTER_DIRECT_RESPONSE, executed>>
    /\ UNCHANGED <<routerVars, uiVars, stop_requested, now, taskVars, ACTION_QUEUE,
                   cancelled_consumers, _LAST_DIRECT_RESPONSE, _ACTIVE_TEXT_RECTS,
                   queued_count, killed, held_at_stop, stops, serverVars>>

\* line 155-156: the delay sleep is over, the action's function starts.
ConsumerDelayOver ==
    /\ _ACTION_TASK.pc = "sleep_delay"
    /\ now >= _ACTION_TASK.wake
    /\ _ACTION_TASK' = [_ACTION_TASK EXCEPT !.pc = "exec", !.wake = 0]
    /\ executed' = executed \cup {_ACTION_TASK.item.id}
    /\ UNCHANGED <<routerVars, uiVars, stop_requested, now, taskVars, ACTION_QUEUE,
                   cancelled_consumers, _LAST_DIRECT_RESPONSE,
                   _WAITED_AFTER_DIRECT_RESPONSE, _ACTIVE_TEXT_RECTS, queued_count,
                   killed, held_at_stop, stops, serverVars>>

\* line 156-157: the action's function returns (a text registers its
\* rectangle, line 502) and the loop goes round; or it raises and ends the
\* consumer task.
ConsumerExecReturns ==
    /\ _ACTION_TASK.pc = "exec"
    /\ \E outcome \in {"ok", "raises"} :
         IF outcome = "ok"
         THEN /\ _ACTIVE_TEXT_RECTS' =
                     IF _ACTION_TASK.item.kind = "text"
                     THEN _ACTIVE_TEXT_RECTS \cup {_ACTION_TASK.item.id}
                     ELSE _ACTIVE_TEXT_RECTS
              /\ ConsumerLoop(_ACTION_TASK.item.time)
         ELSE /\ _ACTION_TASK' = [pc |-> "done", item |-> NoItem, last_time |-> 0,
                                  wake |-> 0]
              /\ UNCHANGED <<_ACTIVE_TEXT_RECTS, ACTION_QUEUE, executed>>
    /\ UNCHANGED <<routerVars, uiVars, stop_requested, now, taskVars, cancelled_consumers,
                   _LAST_DIRECT_RESPONSE, _WAITED_AFTER_DIRECT_RESPONSE,
                   queued_count, killed, held_at_stop, stops, serverVars>>

\* A cancelled consumer is resumed: CancelledError is raised at its await (or
\* before its first step) and the task ends; nothing in _run_queue_async
\* catches it.
CancelledConsumerResumes ==
    /\ \E c \in cancelled_consumers :
         cancelled_consumers' = cancelled_consumers \ {c}
    /\ UNCHANGED <<routerVars, uiVars, stop_requested, now, taskVars, ACTION_QUEUE,
                   _ACTION_TASK, _LAST_DIRECT_RESPONSE,
                   _WAITED_AFTER_DIRECT_RESPONSE, _ACTIVE_TEXT_RECTS, queued_count,
                   executed, killed, held_at_stop, stops, serverVars>>

NextApp ==
    \/ Tick
    \/ handle_overlay_input
    \/ stop_all
    \/ TaskFirstStep
    \/ TaskReturns
    \/ TaskStartsVision
    \/ queue_action
    \/ direct_response
    \/ ConsumerWakes
    \/ ConsumerDirectWaitOver
    \/ ConsumerHideReturns
    \/ ConsumerDelayOver
    \/ ConsumerExecReturns
    \/ CancelledConsumerResumes

(***************************************************************************)
(* Properties of app.py and the draw queue                                 *)
(***************************************************************************)
\* C8: at most one session task is unfinished at any time; an input started
\* a session only when no task was unfinished and was rejected only when one
\* was; every task was started by an input, so no rejected input ran later.
C8_SingleSession ==
    /\ Cardinality(Unfinished) <= 1
    /\ Len(tasks) = started_count
    /\ last_input.outcome = "started" => last_input.unfinished = 0
    /\ last_input.outcome = "rejected" => last_input.unfinished = 1

\* An input was rejected while the only unfinished task was one whose
\* cancellation had been requested; no task was made for it, then or later.
C8_RejectedWhileCancelling ==
    /\ inputs_handled = 2
    /\ last_input.outcome = "rejected"
    /\ last_input.cancelling
    /\ Len(tasks) = 1
    /\ tasks[1].st = "done"

\* C9: a step of stop_all leaves the stop flag set, the cancellation of the
\* unfinished session task requested, the queue empty, no consumer task
\* registered and the earlier one cancelled, the rectangle cache empty and the
\* direct-response wait state reset; and no action that was queued and not yet
\* started at a stop_all is ever started.
C9_StopAllStep ==
    stops' = stops + 1
       => /\ stop_requested'
          /\ \A i \in Unfinished : tasks'[i].cancel
          /\ ACTION_QUEUE' = <<>>
          /\ _ACTION_TASK' = NoConsumer
          /\ (_ACTION_TASK.pc \notin {"none", "done"}
                 => _ACTION_TASK \in cancelled_consumers')
          /\ _ACTIVE_TEXT_RECTS' = {}
          /\ _LAST_DIRECT_RESPONSE' = 0
          /\ _WAITED_AFTER_DIRECT_RESPONSE'

C9_StopAll ==
    /\ [][C9_StopAllStep]_vars
    /\ [](killed \cap executed = {})

\* stop_all ran while the consumer held an action it had popped and not yet
\* started; the cancelled consumer has since ended, and an action queued after
\* the stop has been started.
C9_StoppedWhileHolding ==
    /\ held_at_stop # {}
    /\ cancelled_consumers = {}
    /\ \E a \in executed : \A k \in killed : a > k
    /\ \E i \in 1..Len(tasks) : tasks[i].cancel /\ tasks[i].st = "done"

\* A step that takes the head of the queue into the consumer's hand.
PopsHead ==
    /\ ACTION_QUEUE # <<>>
    /\ _ACTION_TASK'.item = Head(ACTION_QUEUE)
    /\ ACTION_QUEUE' = Tail(ACTION_QUEUE)

\* C12: the consumer holds at most one action at a time, and the action it
\* takes from the queue has a time offset no larger than that of any action
\* still waiting in the queue, whatever the order of submission.
C12_AscendingTimeOffset ==
    [][PopsHead => \A i \in 1..Len(ACTION_QUEUE) :
                       Head(ACTION_QUEUE).time <= ACTION_QUEUE[i].time]_vars

\* A step in which the consumer calls _hide_command_overlay.
CallsHide == _ACTION_TASK.pc # "hide" /\ _ACTION_TASK'.pc = "hide"

\* C13: when the consumer calls _hide_command_overlay, at least 4 s have
\* passed since the latest direct_response call.
C13_DirectResponseShownFourSeconds ==
    [][CallsHide => now - _LAST_DIRECT_RESPONSE >= DirectResponseHold]_vars

(***************************************************************************)
(* ui/server.py: de-duplication of overlay_input events                    *)
(***************************************************************************)
RequestIdWindow == 100
NotSeen == -1

Connections == {1, 2}
RequestIds == {"r1", "r2"}
NoRid == ""

\* Seconds (in tenths) between one event and the next.
Gaps == {0, DuplicateInputWindow, RequestIdWindow \div 2, RequestIdWindow \div 2 + 1}

\* What the overlay may send: an overlay_input with a requestId, one without
\* (its text is then compared), or an event the de-duplication ignores.
ServerEvents ==
    { [kind |-> "overlay_input", rid |-> r, text |-> "go"] : r \in RequestIds }
      \cup { [kind |-> "overlay_input", rid |-> NoRid, text |-> t] : t \in RawInputs }
      \cup { [kind |-> "viewport", rid |-> NoRid, text |-> ""] }

\* " ".join(str(text).split())
Normalize(text) == Strip(text)

InitServer ==
    /\ _seen_overlay_request_ids = [r \in RequestIds |-> NotSeen]
    /\ _last_overlay_text = ""
    /\ _last_overlay_ts = 0
    /\ conn_pc = [c \in Connections |-> "idle"]
    /\ events = <<>>

Mut_Expired(n, ts) == n - ts >= RequestIdWindow

Mut_WithinTextWindow(n, ts) == n - ts <= DuplicateInputWindow

\* line 388: (now - self._last_overlay_ts) < 1.2
WithinTextWindow(n, ts) == n - ts < DuplicateInputWindow

\* (now - ts) > 10.0
Expired(n, ts) == n - ts > RequestIdWindow

\* line 374-379: drop the expired request ids
Purge(seen, n) ==
    [r \in RequestIds |-> IF seen[r] # NotSeen /\ Expired(n, seen[r]) THEN NotSeen
                          ELSE seen[r]]

\* _handle_client line 366-397 for one received event: the event is dropped
\* (continue) or the registered handler is called and awaited.
ServerReceives ==
    /\ Len(events) < MaxEvents
    /\ \E c \in Connections, e \in ServerEvents, gap \in Gaps :
         LET n == now + gap
             seen == Purge(_seen_overlay_request_ids, n)
             logged(invoked) == Append(events, [kind |-> e.kind, rid |-> e.rid,
                                                text |-> e.text, t |-> n, conn |-> c,
                                                invoked |-> invoked])
         IN  /\ conn_pc[c] = "idle"
             /\ now' = n
             /\ IF e.kind # "overlay_input"
                THEN /\ events' = logged(FALSE)
                     /\ UNCHANGED <<_seen_overlay_request_ids, _last_overlay_text,
                                    _last_overlay_ts, conn_pc>>
                ELSE IF e.rid # NoRid
                THEN IF seen[e.rid] # NotSeen
                     THEN /\ _seen_overlay_request_ids' = seen
                          /\ events' = logged(FALSE)
                          /\ UNCHANGED <<_last_overlay_text, _last_overlay_ts, conn_pc>>
                     ELSE /\ _seen_overlay_request_ids' = [seen EXCEPT ![e.rid] = n]
                          /\ events' = logged(TRUE)
                          /\ conn_pc' = [conn_pc EXCEPT ![c] = "in_handler"]
                          /\ UNCHANGED <<_last_overlay_text, _last_overlay_ts>>
                ELSE IF /\ Normalize(e.text) # ""
                        /\ Normalize(e.text) = _last_overlay_text
                        /\ WithinTextWindow(n, _last_overlay_ts)
                THEN /\ events' = logged(FALSE)
                     /\ UNCHANGED <<_seen_overlay_request_ids, _last_overlay_text,
                                    _last_overlay_ts, conn_pc>>
                ELSE /\ _last_overlay_text' = Normalize(e.text)
                     /\ _last_overlay_ts' = n
                     /\ events' = logged(TRUE)
                     /\ conn_pc' = [conn_pc EXCEPT ![c] = "in_handler"]
                     /\ UNCHANGED _seen_overlay_request_ids
    /\ UNCHANGED <<routerVars, uiVars, stop_requested, appVars>>

\* line 394-397: the awaited handler returns; the connection reads on.
HandlerReturns ==
    /\ \E c \in Connections :
         /\ conn_pc[c] = "in_handler"
         /\ conn_pc' = [conn_pc EXCEPT ![c] = "idle"]
    /\ UNCHANGED <<routerVars, uiVars, stop_requested, now, appVars,
                   _seen_overlay_request_ids, _last_overlay_text, _last_overlay_ts,
                   events>>

NextServer ==
    \/ ServerReceives
    \/ HandlerReturns

(***************************************************************************)
(* Properties of the server                                                *)
(***************************************************************************)
SameRequest(i, j) ==
    /\ events[i].kind = "overlay_input" /\ events[j].kind = "overlay_input"
    /\ events[i].rid # NoRid
    /\ events[i].rid = events[j].rid

\* Event i is no duplicate itself: no event of its requestId came in the ten
\* seconds before it.
FirstOfBurst(i) ==
    \A k \in 1..(i - 1) : SameRequest(k, i) => events[i].t - events[k].t > 100

\* C10: of two overlay_input events that carry the same requestId and lie at
\* most 10 s apart, never both reach the handler; and when the earlier one is
\* no duplicate itself, it reaches the handler and the later one does not.
C10_RequestIdDedup ==
    \A i, j \in 1..Len(events) :
        (i < j /\ SameRequest(i, j) /\ events[j].t - events[i].t <= 100)
           => /\ ~(events[i].invoked /\ events[j].invoked)
              /\ FirstOfBurst(i) => (events[i].invoked /\ ~events[j].invoked)

\* The same requestId arrived twice, exactly 10 s apart, on two connections,
\* with another event in between and the first handler call still awaited.
C10_DuplicateDropped ==
    /\ Len(events) = 3
    /\ SameRequest(1, 3)
    /\ events[3].t - events[1].t = 100
    /\ events[1].conn # events[3].conn
    /\ events[1].invoked /\ ~events[3].invoked
    /\ conn_pc[events[1].conn] = "in_handler"

\* The id-less overlay_input events, and the last of them before event j that
\* reached the handler (0 when there is none).
IdLess(i) == events[i].kind = "overlay_input" /\ events[i].rid = NoRid

AcceptedIdLessBefore(j) == {i \in 1..(j - 1) : IdLess(i) /\ events[i].invoked}

LastAcceptedIdLess(j) ==
    IF AcceptedIdLessBefore(j) = {} THEN 0
    ELSE CHOOSE i \in AcceptedIdLessBefore(j) : \A k \in AcceptedIdLessBefore(j) : k <= i

\* C11: an overlay_input event without requestId is dropped exactly when its
\* whitespace-normalized text is non-empty, equals the normalized text of the
\* last id-less event that reached the handler, and comes less than 1.2 s
\* after it; an event with a requestId that was not seen in the last 10 s
\* reaches the handler whatever its text, and leaves the text comparison of
\* later id-less events as it was.
C11_TextDedupOnlyWithoutId ==
    \A j \in 1..Len(events) :
        /\ IdLess(j)
           => LET i == LastAcceptedIdLess(j)
              IN  ~events[j].invoked
                      <=> /\ i # 0
                          /\ Strip(events[j].text) # ""
                          /\ Strip(events[j].text) = Strip(events[i].text)
                          /\ events[j].t - events[i].t < DuplicateInputWindow
        /\ (events[j].kind = "overlay_input" /\ events[j].rid # NoRid /\ FirstOfBurst(j))
           => events[j].invoked

\* " go " without requestId was accepted, "go" with a requestId came at the
\* same instant and reached the handler, and " go " without requestId, still
\* at the same instant, was dropped.
C11_IdEventBetweenDuplicates ==
    /\ Len(events) = 3
    /\ IdLess(1) /\ events[1].text = " go " /\ events[1].invoked
    /\ events[2].rid # NoRid /\ events[2].text = "go" /\ events[2].invoked
    /\ events[2].t = events[1].t
    /\ IdLess(3) /\ events[3].text = " go " /\ ~events[3].invoked
    /\ events[3].t = events[1].t

(***************************************************************************)
(* agents/clovis/tools.py: placement of text panels                        *)
(***************************************************************************)
_TEXT_PANEL_MAX_WIDTH_PX == 320
_TEXT_PANEL_MIN_WIDTH_PX == 96
_TEXT_PANEL_MIN_HEIGHT_PX == 44
_TEXT_HORIZONTAL_PADDING_PX == 40
_TEXT_VERTICAL_PADDING_PX == 32
_TEXT_SIZE_SAFETY_WIDTH_PX == 8
_TEXT_SIZE_SAFETY_HEIGHT_PX == 16
_TEXT_VIEWPORT_MARGIN_PX == 8
_TEXT_LAYOUT_STEP_PX == 28
_TEXT_LAYOUT_MAX_RINGS == 10
_TEXT_OVERLAP_BUFFER_PX == 0

Max(a, b) == IF a >= b THEN a ELSE b
Min(a, b) == IF a <= b THEN a ELSE b
Abs(a) == IF a >= 0 THEN a ELSE -a

\* _clamp(value, low, high) == max(low, min(high, value))
_clamp(value, low, high) == Max(low, Min(high, value))

\* round() of a number of hundredths
Round100(h) == (h + 50) \div 100

\* _estimate_text_panel_size for a text of one word of `chars` characters;
\* widths and heights are computed in hundredths of a pixel
\* (_TEXT_CHAR_WIDTH_MULTIPLIER = 0.56, _TEXT_LINE_HEIGHT_MULTIPLIER = 1.6).
_estimate_text_panel_size(chars, font_size) ==
    LET safe_font_size == Max(font_size, 10)
        content_max_width == 100 * Max(_TEXT_PANEL_MAX_WIDTH_PX - _TEXT_HORIZONTAL_PADDING_PX, 40)
        char_width == Max(56 * safe_font_size, 450)
        max_chars_per_line == Max(1, content_max_width \div char_width)
        line_count == Max((chars + max_chars_per_line - 1) \div max_chars_per_line, 1)
        longest_line_chars == Min(chars, max_chars_per_line)
        content_width == Min(content_max_width,
                             Max(char_width * Max(longest_line_chars, 2), 2400))
        line_height == Max(160 * safe_font_size, 100 * (safe_font_size + 4))
        content_height == Max(line_count * line_height, line_height)
    IN  << Round100(_clamp(content_width
                             + 100 * (_TEXT_HORIZONTAL_PADDING_PX + _TEXT_SIZE_SAFETY_WIDTH_PX),
                           100 * _TEXT_PANEL_MIN_WIDTH_PX, 100 * _TEXT_PANEL_MAX_WIDTH_PX)),
           Round100(Max(content_height
                          + 100 * (_TEXT_VERTICAL_PADDING_PX + _TEXT_SIZE_SAFETY_HEIGHT_PX),
                        100 * _TEXT_PANEL_MIN_HEIGHT_PX)) >>

Rect(left, top, right, bottom) ==
    [left |-> left, top |-> top, right |-> right, bottom |-> bottom]

\* _anchor_to_rect for align in {left, center, right} and baseline in
\* {top, bottom}; panel widths are even, so every value is an integer.
_anchor_to_rect(anchor_x, anchor_y, panel_width, panel_height, align, baseline, viewport_width, viewport_height) ==
    LET left == IF align = "center" THEN anchor_x - (panel_width \div 2)
                ELSE IF align = "right" THEN anchor_x - panel_width
                ELSE anchor_x
        top == IF baseline = "bottom" THEN anchor_y - panel_height ELSE anchor_y
        horizontal_margin ==
            IF panel_width + 2 * _TEXT_VIEWPORT_MARGIN_PX > viewport_width THEN 0
            ELSE _TEXT_VIEWPORT_MARGIN_PX
        vertical_margin ==
            IF panel_height + 2 * _TEXT_VIEWPORT_MARGIN_PX > viewport_height THEN 0
            ELSE _TEXT_VIEWPORT_MARGIN_PX
        max_left == Max(viewport_width - panel_width - horizontal_margin, horizontal_margin)
        max_top == Max(viewport_height - panel_height - vertical_margin, vertical_margin)
        clamped_left == _clamp(left, horizontal_margin, max_left)
        clamped_top == _clamp(top, vertical_margin, max_top)
    IN  [x |-> IF align = "center" THEN clamped_left + (panel_width \div 2)
               ELSE IF align = "right" THEN clamped_left + panel_width
               ELSE clamped_left,
         y |-> IF baseline = "bottom" THEN clamped_top + panel_height ELSE clamped_top,
         rect |-> Rect(clamped_left, clamped_top,
                       clamped_left + panel_width, clamped_top + panel_height)]

Mut_rects_overlap(rect_a, rect_b, buffer) ==
    /\ rect_a.left < rect_b.right - buffer
    /\ rect_a.right > rect_b.left + buffer
    /\ rect_a.top < rect_b.top - buffer
    /\ rect_a.bottom > rect_b.bottom + buffer

_rects_overlap(rect_a, rect_b, buffer) ==
    /\ rect_a.left < rect_b.right - buffer
    /\ rect_a.right > rect_b.left + buffer
    /\ rect_a.top < rect_b.bottom - buffer
    /\ rect_a.bottom > rect_b.top + buffer

_intersection_area(rect_a, rect_b) ==
    Max(0, Min(rect_a.right, rect_b.right) - Max(rect_a.left, rect_b.left))
      * Max(0, Min(rect_a.bottom, rect_b.bottom) - Max(rect_a.top, rect_b.top))

\* The entries of the cache other than that of ignore_text_id.
Others(cache, ignore_text_id) == {e \in cache : e[1] # ignore_text_id}

_has_text_overlap(cache, rect, ignore_text_id) ==
    \E e \in Others(cache, ignore_text_id) :
        _rects_overlap(rect, e[2], _TEXT_OVERLAP_BUFFER_PX)

RECURSIVE SumAreas(_, _)
SumAreas(rect, entries) ==
    IF entries = {} THEN 0
    ELSE LET e == CHOOSE x \in entries : TRUE
         IN  _intersection_area(rect, e[2]) + SumAreas(rect, entries \ {e})

_overlap_score(cache, rect, ignore_text_id) ==
    SumAreas(rect, Others(cache, ignore_text_id))

\* line 426-439: the twelve offsets of one ring
RingOffsets(delta) ==
    << <<0, -delta>>, <<0, delta>>, <<delta, 0>>, <<-delta, 0>>,
       <<delta, -delta>>, <<-delta, -delta>>, <<delta, delta>>, <<-delta, delta>>,
       <<2 * delta, 0>>, <<-2 * delta, 0>>, <<0, 2 * delta>>, <<0, -2 * delta>> >>

\* The k-th offset the two loops of line 424 and 440 visit.
CandidateOffset(k) ==
    RingOffsets((((k - 1) \div 12) + 1) * _TEXT_LAYOUT_STEP_PX)[((k - 1) % 12) + 1]

CandidateCount == 12 * _TEXT_LAYOUT_MAX_RINGS

\* The panel a request asks for: anchor, size, alignment, id.
Request(x, y, size, align, baseline, text_id) ==
    [x |-> x, y |-> y, panel_width |-> size[1], panel_height |-> size[2],
     align |-> align, baseline |-> baseline, text_id |-> text_id]

Candidate(req, vp, k) ==
    LET off == IF k = 0 THEN <<0, 0>> ELSE CandidateOffset(k)
    IN  _anchor_to_rect(req.x + off[1], req.y + off[2], req.panel_width,
                        req.panel_height, req.align, req.baseline, vp[1], vp[2])

\* abs(dx) + abs(dy); 0 for the requested anchor
Distance(k) ==
    IF k = 0 THEN 0 ELSE Abs(CandidateOffset(k)[1]) + Abs(CandidateOffset(k)[2])

\* Candidate k is free: its rectangle overlaps no cached rectangle of
\* another id.
IsFree(cache, req, vp, k) ==
    ~_has_text_overlap(cache, Candidate(req, vp, k).rect, req.text_id)

\* The least number of a non-empty set.
Least(S) == CHOOSE k \in S : \A j \in S : k <= j

\* <<score, distance, position in the loops>> of every candidate
Scored(cache, req, vp) ==
    { << _overlap_score(cache, Candidate(req, vp, k).rect, req.text_id), Distance(k), k >> :
         k \in 0..CandidateCount }

\* line 454-459 keeps a candidate only if its score is smaller than the best
\* so far or, at equal score, its distance is: what the loops keep is the
\* first candidate of least score and, among those, least distance.
KeptBefore(c, d) ==
    \/ c[1] < d[1]
    \/ /\ c[1] = d[1]
       /\ \/ c[2] < d[2]
          \/ (c[2] = d[2] /\ c[3] <= d[3])

Kept(scored) == (CHOOSE c \in scored : \A d \in scored : KeptBefore(c, d))[3]

\* line 417-461: the requested anchor if it is free; else the first free
\* candidate the loops visit; else the best the loops have kept.
ResolveAmong(free, cache, req, vp) ==
    IF free # {} THEN Candidate(req, vp, Least(free))
    ELSE Candidate(req, vp, Kept(Scored(cache, req, vp)))

_resolve_non_overlapping_anchor(cache, req, vp) ==
    ResolveAmong({k \in 0..CandidateCount : IsFree(cache, req, vp, k)}, cache, req, vp)

\* The requested anchor or a candidate of the rings is free.
HasFreeCandidate(cache, req, vp) ==
    \E k \in 0..CandidateCount : IsFree(cache, req, vp, k)

\* _ACTIVE_TEXT_RECTS[text_id] = rect
PutRect(cache, text_id, rect) == Others(cache, text_id) \cup {<<text_id, rect>>}

\* _SCREEN_SIZE / _VIEWPORT_SIZE = None: the settings are read and kept by the
\* first call of _get_sizes.
NoViewport == <<0, 0>>
Viewports == {<<340, 100>>, <<1280, 720>>}
\* The create_text calls of the model: anchor, characters and font size of
\* the text, align, baseline.
TextCalls ==
    { [x |-> 8, y |-> 8, chars |-> 2, font_size |-> 18, align |-> "left", baseline |-> "top"],
      [x |-> 8, y |-> 8, chars |-> 27, font_size |-> 18, align |-> "left", baseline |-> "top"],
      [x |-> 120, y |-> 40, chars |-> 2, font_size |-> 18, align |-> "center", baseline |-> "bottom"],
      [x |-> 640, y |-> 360, chars |-> 40, font_size |-> 10, align |-> "right", baseline |-> "top"] }
NoTextId == ""
GivenTextIds == {"a", "b"}
\* text_id or f"text_{uuid.uuid4().hex[:8]}"
ResolvedTextId(text_id, n) == IF text_id = NoTextId THEN "text_" \o ToString(n) ELSE text_id

NoPlacing == [id |-> NoTextId, rect |-> Rect(0, 0, 0, 0), free |-> FALSE, moved |-> FALSE]

InitLayout ==
    /\ viewport = NoViewport
    /\ text_rects = {}
    /\ placing = NoPlacing
    /\ placements = 0
    /\ all_free = TRUE
    /\ last_placed = NoPlacing

\* Everything the layout actions leave alone.
otherThanLayout == <<routerVars, stop_requested, now, appVars, serverVars, registryVars,
                     coordVars, themeVars, agentVars>>

\* _create_text_non_overlapping line 475-491: the consumer starts a text
\* action; the rectangle is resolved against the cache and _create_text is
\* awaited.
PlaceTextResolves ==
    /\ placing = NoPlacing
    /\ placements < MaxPlacements
    /\ \E c \in TextCalls, text_id \in GivenTextIds \cup {NoTextId},
          vp \in (IF viewport = NoViewport THEN Viewports ELSE {viewport}) :
         LET req == Request(c.x, c.y, _estimate_text_panel_size(c.chars, c.font_size),
                            c.align, c.baseline, ResolvedTextId(text_id, placements + 1))
             resolved == _resolve_non_overlapping_anchor(text_rects, req, vp)
         IN  /\ viewport' = vp
             /\ placing' = [id |-> req.text_id,
                            rect |-> resolved.rect,
                            free |-> HasFreeCandidate(text_rects, req, vp),
                            moved |-> resolved.rect # Candidate(req, vp, 0).rect]
    /\ placements' = placements + 1
    /\ UNCHANGED <<otherThanLayout, text_rects, all_free, last_placed>>

\* line 491-503: _create_text returns and the rectangle is registered, or the
\* send raises and the consumer task ends.
PlaceTextRegisters ==
    /\ placing # NoPlacing
    /\ \E outcome \in {"ok", "raises"} :
         IF outcome = "ok"
         THEN /\ text_rects' = PutRect(text_rects, placing.id, placing.rect)
              /\ all_free' = (all_free /\ placing.free)
              /\ last_placed' = placing
         ELSE UNCHANGED <<text_rects, all_free, last_placed>>
    /\ placing' = NoPlacing
    /\ UNCHANGED <<otherThanLayout, viewport, placements>>

\* _destroy_text_with_layout_reset, run by the consumer between two actions
DestroyText ==
    /\ placing = NoPlacing
    /\ \E e \in text_rects : text_rects' = Others(text_rects, e[1])
    /\ UNCHANGED <<otherThanLayout, viewport, placing, placements, all_free, last_placed>>

\* _clear_screen_with_layout_reset, run by the consumer between two actions
ClearScreen ==
    /\ placing = NoPlacing
    /\ text_rects # {}
    /\ text_rects' = {}
    /\ UNCHANGED <<otherThanLayout, viewport, placing, placements, all_free, last_placed>>

\* stop_all_actions: the cache is cleared and the consumer cancelled, so a
\* placement that awaits _create_text never registers its rectangle.
StopAllActions ==
    /\ text_rects # {} \/ placing # NoPlacing
    /\ text_rects' = {}
    /\ placing' = NoPlacing
    /\ UNCHANGED <<otherThanLayout, viewport, placements, all_free, last_placed>>

NextLayout ==
    \/ PlaceTextResolves
    \/ PlaceTextRegisters
    \/ DestroyText
    \/ ClearScreen
    \/ StopAllActions

\* Two rectangles share interior points.
Overlapping(r1, r2) ==
    /\ r1.left < r2.right /\ r2.left < r1.right
    /\ r1.top < r2.bottom /\ r2.top < r1.bottom

\* C14: the rectangle registered last, placed when the anchor or a candidate
\* of the ten rings was free, overlaps no rectangle cached under another id;
\* and as long as every registered placement had a free candidate the cached
\* rectangles are pairwise non-overlapping, one per id.
C14_TextRectsDisjoint ==
    /\ (last_placed.free /\ <<last_placed.id, last_placed.rect>> \in text_rects)
          => \A e \in text_rects :
                 e[1] # last_placed.id => ~Overlapping(e[2], last_placed.rect)
    /\ all_free => \A e1, e2 \in text_rects :
                       /\ e1[1] = e2[1] => e1 = e2
                       /\ e1 # e2 => ~Overlapping(e1[2], e2[2])

\* After three placements two panels are cached: "a" was re-created under its
\* id, and "b", placed last, was moved off its requested anchor because the
\* anchor was taken.
C14_PanelMovedOffTakenAnchor ==
    /\ Cardinality(text_rects) = 2
    /\ placements = 3
    /\ all_free
    /\ placing = NoPlacing
    /\ last_placed.id = "b" /\ last_placed.moved /\ last_placed.free
    /\ <<"b", last_placed.rect>> \in text_rects
    /\ \E e \in text_rects : e[1] = "a"

(***************************************************************************)
(* ui/server.py: the Overlay Entity Registry and its replay to new clients *)
(***************************************************************************)
\* A dict is modelled by its entries in insertion order; a deleted key leaves
\* the empty entry Deleted, as in CPython, whose iterators walk the entries by
\* index and raise RuntimeError when the number of keys has changed.  self.dots
\* is handled as self.boxes is and left out.
Deleted == ""
Keys(d) == {d[i] : i \in 1..Len(d)} \ {Deleted}
Used(d) == Cardinality(Keys(d))

\* d[key] = payload
DictSet(d, key) == IF key \in Keys(d) THEN d ELSE Append(d, key)

\* d.pop(key, None)
DictPop(d, key) == [i \in 1..Len(d) |-> IF d[i] = key THEN Deleted ELSE d[i]]

\* The index of the next entry after pos, 0 when the iterator is exhausted.
NextIndex(d, pos) ==
    IF \E i \in (pos + 1)..Len(d) : d[i] # Deleted
    THEN CHOOSE i \in (pos + 1)..Len(d) :
             /\ d[i] # Deleted
             /\ \A j \in (pos + 1)..(i - 1) : d[j] = Deleted
    ELSE 0

Websockets == {1, 2}
BoxIds == {"b1", "b2"}
TextIds == {"t1", "direct_response"}

\* The commands that reach the registry: those of the drawing tools, and the
\* overlay_hide of _hide_command_overlay (clovis/tools.py line 98-100), which
\* names the text that direct_response drew (line 556-576).
RegistryCommands ==
    { [command |-> c, id |-> i] : c \in {"draw_box", "remove_box"}, i \in BoxIds }
      \cup { [command |-> c, id |-> i] : c \in {"draw_text", "remove_text"}, i \in TextIds }
      \cup { [command |-> "clear", id |-> Deleted] }
      \cup { [command |-> "overlay_hide", id |-> "direct_response"] }

NoClient == [pc |-> "none", pos |-> 0, used |-> 0, replayed |-> {}, at_connect |-> {}]

InitRegistry ==
    /\ boxes = <<>>
    /\ texts = <<>>
    /\ clients = [w \in Websockets |-> NoClient]
    /\ commands = 0
    /\ hidden = {}

otherThanRegistry == <<routerVars, stop_requested, now, appVars, serverVars, layoutVars,
                       coordVars, themeVars, agentVars>>

\* line 249-254: the loop over self.texts.values(), from the iterator's next
\* step to the next awaited send; after it the handler reads messages.
ReplayTexts(cl, pos, used, txt) ==
    IF Used(txt) # used THEN [cl EXCEPT !.pc = "failed"]
    ELSE IF NextIndex(txt, pos) = 0 THEN [cl EXCEPT !.pc = "listening"]
    ELSE [cl EXCEPT !.pc = "send_text", !.pos = NextIndex(txt, pos), !.used = used,
                    !.replayed = cl.replayed \cup {txt[NextIndex(txt, pos)]}]

\* line 247-249: the loop over self.boxes.values(), likewise; when it is
\* exhausted the loop over the texts starts.
ReplayBoxes(cl, pos, used, bxs, txt) ==
    IF Used(bxs) # used THEN [cl EXCEPT !.pc = "failed"]
    ELSE IF NextIndex(bxs, pos) = 0 THEN ReplayTexts(cl, 0, Used(txt), txt)
    ELSE [cl EXCEPT !.pc = "send_box", !.pos = NextIndex(bxs, pos), !.used = used,
                    !.replayed = cl.replayed \cup {bxs[NextIndex(bxs, pos)]}]

\* _handle_client line 244-248: a client connects; it is added to
\* self.clients and the replay runs up to its first awaited send.
ClientConnects ==
    /\ \E w \in Websockets :
         /\ clients[w].pc = "none"
         /\ clients' = [clients EXCEPT ![w] =
                ReplayBoxes([NoClient EXCEPT !.at_connect = Keys(boxes) \cup Keys(texts)],
                            0, Used(boxes), boxes, texts)]
    /\ UNCHANGED <<otherThanRegistry, boxes, texts, commands, hidden>>

\* line 248 / 250: the awaited websocket.send of the replay returns.
ReplaySendReturns ==
    /\ \E w \in Websockets :
         \/ /\ clients[w].pc = "send_box"
            /\ clients' = [clients EXCEPT ![w] =
                   ReplayBoxes(clients[w], clients[w].pos, clients[w].used, boxes, texts)]
         \/ /\ clients[w].pc = "send_text"
            /\ clients' = [clients EXCEPT ![w] =
                   ReplayTexts(clients[w], clients[w].pos, clients[w].used, texts)]
    /\ UNCHANGED <<otherThanRegistry, boxes, texts, commands, hidden>>

\* line 254-339: a connected client's handler receives a registry command,
\* applies it to the registry and awaits the broadcast.
CommandReceived ==
    /\ commands < MaxCommands
    /\ \E w \in Websockets, m \in RegistryCommands :
         /\ clients[w].pc = "listening"
         /\ boxes' = IF m.command = "draw_box" THEN DictSet(boxes, m.id)
                     ELSE IF m.command = "remove_box" THEN DictPop(boxes, m.id)
                     ELSE IF m.command = "clear" THEN <<>>
                     ELSE boxes
         /\ texts' = IF m.command = "draw_text" THEN DictSet(texts, m.id)
                     ELSE IF m.command = "remove_text" THEN DictPop(texts, m.id)
                     ELSE IF m.command = "clear" THEN <<>>
                     ELSE texts
         /\ hidden' = IF m.command = "overlay_hide" THEN hidden \cup ({m.id} \cap Keys(texts))
                      ELSE IF m.command \in {"draw_text", "remove_text"} THEN hidden \ {m.id}
                      ELSE IF m.command = "clear" THEN {}
                      ELSE hidden
         /\ clients' = [clients EXCEPT ![w].pc = "broadcasting"]
    /\ commands' = commands + 1
    /\ UNCHANGED otherThanRegistry

\* line 404-416: the awaited _broadcast returns; the handler reads on.
BroadcastReturns ==
    /\ \E w \in Websockets :
         /\ clients[w].pc = "broadcasting"
         /\ clients' = [clients EXCEPT ![w].pc = "listening"]
    /\ UNCHANGED <<otherThanRegistry, boxes, texts, commands, hidden>>

NextRegistry ==
    \/ ClientConnects
    \/ ReplaySendReturns
    \/ CommandReceived
    \/ BroadcastReturns

\* C15: a client whose replay is over (it reads messages, or its handler has
\* ended in the replay) has been sent exactly the entities that were in the
\* registry when it connected.
C15_ReplayIsSnapshotAtConnect ==
    \A w \in Websockets :
        clients[w].pc \in {"listening", "broadcasting", "failed"}
           => clients[w].replayed = clients[w].at_connect

(***************************************************************************)
(* Coordinate conversion: denormalize of agents/clovis/tools.py and        *)
(* _to_pixels of agents/cua_vision/tools.py.  A number is a fraction       *)
(* <<numerator, denominator>> in lowest terms, so that ratios such as 0.25 *)
(* and products such as 562.68 are exact; for the inputs below the         *)
(* floating-point results of the code have the same integer part.          *)
(***************************************************************************)
RECURSIVE GCD(_, _)
GCD(a, b) == IF b = 0 THEN a ELSE GCD(b, a % b)

\* n / d in lowest terms, for n >= 0 and d > 0
Frac(n, d) == LET g == GCD(n, d) IN <<n \div g, d \div g>>

Whole(n) == <<n, 1>>

\* lo <= x <= hi for whole numbers lo and hi
Between(lo, x, hi) == lo * x[2] <= x[1] /\ x[1] <= hi * x[2]

\* x * m / k
Scaled(x, m, k) == Frac(x[1] * m, x[2] * k)

\* int(x) for x >= 0
Truncated(x) == x[1] \div x[2]

RuntimeError == "RuntimeError"

\* denormalize line 61-78; width and height are what "viewport or screen"
\* gave, 0 when neither is known.
denormalize(norm_x, norm_y, width, height) ==
    IF width = 0 \/ height = 0 THEN RuntimeError
    ELSE <<IF Between(0, norm_x, 1000) THEN Whole(Truncated(Scaled(norm_x, width, 1000)))
           ELSE norm_x,
           IF Between(0, norm_y, 1000) THEN Whole(Truncated(Scaled(norm_y, height, 1000)))
           ELSE norm_y>>

\* _to_pixels line 288-295
_to_pixels(value, size) ==
    IF Between(0, value, 1) THEN Scaled(value, size, 1)
    ELSE IF Between(0, value, 1000) THEN Scaled(value, size, 1000)
    ELSE value

\* The values passed: normalized ones of the band [0, 1000] and ratios of the
\* band [0, 1]; the sizes of the viewport, <<0, 0>> while it is unknown.
NormalizedValues == {Whole(0), Whole(1), Whole(100), Whole(250), Whole(500),
                     Whole(521), Whole(750), Whole(999), Whole(1000)}

RatioValues == {Whole(0), <<1, 4>>, <<1, 2>>, <<3, 5>>, Whole(1)}

BandValues(band) == IF band = "ratio" THEN RatioValues ELSE NormalizedValues

ScreenSizes == {<<800, 600>>, <<1920, 1080>>}

NoSize == <<0, 0>>

\* The same position written in pixels: v / 1000 * size, r * size.
AlreadyConverted(band, value, size) ==
    IF band = "ratio" THEN Scaled(value, size, 1) ELSE Scaled(value, size, 1000)

NoCoords == [tool |-> "none", band |-> "none", value |-> Whole(0), size |-> NoSize,
             pc |-> "none", direct |-> <<>>, converted |-> <<>>]

InitCoords == coords = NoCoords

otherThanCoords == <<routerVars, stop_requested, now, appVars, serverVars, layoutVars,
                     registryVars, themeVars, agentVars>>

\* A draw tool passes the value as x and as y to denormalize.
DenormalizeCalled ==
    /\ \E band \in {"normalized", "ratio"}, size \in ScreenSizes \cup {NoSize} :
         \E value \in BandValues(band) :
            LET out == denormalize(value, value, size[1], size[2])
            IN  coords' = [tool |-> "denormalize", band |-> band, value |-> value,
                           size |-> size,
                           pc |-> IF out = RuntimeError THEN "raised" ELSE "direct",
                           direct |-> IF out = RuntimeError THEN <<>> ELSE out,
                           converted |-> <<>>]
    /\ UNCHANGED otherThanCoords

\* A bounding-box tool passes the value to _to_pixels with the width and
\* with the height.
ToPixelsCalled ==
    /\ \E band \in {"normalized", "ratio"}, size \in ScreenSizes :
         \E value \in BandValues(band) :
            coords' = [tool |-> "_to_pixels", band |-> band, value |-> value,
                       size |-> size, pc |-> "direct",
                       direct |-> <<_to_pixels(value, size[1]), _to_pixels(value, size[2])>>,
                       converted |-> <<>>]
    /\ UNCHANGED otherThanCoords

\* The same tool is called with the position already written in pixels.
ConvertedValuePassed ==
    /\ coords.pc = "direct"
    /\ LET px == AlreadyConverted(coords.band, coords.value, coords.size[1])
           py == AlreadyConverted(coords.band, coords.value, coords.size[2])
       IN  coords' =
             [coords EXCEPT
                !.pc = "both",
                !.converted =
                    IF coords.tool = "denormalize"
                    THEN denormalize(px, py, coords.size[1], coords.size[2])
                    ELSE <<_to_pixels(px, coords.size[1]), _to_pixels(py, coords.size[2])>>]
    /\ UNCHANGED otherThanCoords

NextCoords ==
    \/ DenormalizeCalled
    \/ ToPixelsCalled
    \/ ConvertedValuePassed

\* Two results name the same pixel: their integer parts agree.
SamePixel(a, b) ==
    /\ Truncated(a[1]) = Truncated(b[1])
    /\ Truncated(a[2]) = Truncated(b[2])

\* C19: for a value of the band [0, 1000] and for a ratio of the band
\* [0, 1], denormalize and _to_pixels give the same pixel for the value and
\* for the same position already written in pixels.
C19_NormalizationIdempotent ==
    coords.pc = "both" => SamePixel(coords.direct, coords.converted)

(***************************************************************************)
(* Theme Sampler: ui/server.py.  An image is one row of ten RGB pixels,    *)
(* near-black pixels first; luminance is kept in ten-thousandths.          *)
(***************************************************************************)
DARK_LUMINANCE_THRESHOLD == 112
INVERTED_PANEL_DARK_THRESHOLD == 45
STATUS_INVERTED_PANEL_DARK_THRESHOLD == 132

NoImage == [px |-> <<>>]

Image(black, rest) == [px |-> [i \in 1..10 |-> IF i <= black THEN <<0, 0, 0>> ELSE rest]]

Images == {Image(black, rest) : black \in {0, 8, 9, 10},
                                rest \in {<<5, 5, 5>>, <<60, 60, 60>>, <<230, 230, 230>>}}

\* What a fresh grab gives when nothing is cached: nothing (the call raises or
\* the module is missing), an all-black image, or a mostly bright one.
Grabs == {NoImage, Image(10, <<0, 0, 0>>), Image(0, <<230, 230, 230>>)}

\* image.size and image.getpixel((x, 0)), x counted from 0
WidthOf(image) == Len(image.px)

getpixel(image, x) == image.px[x + 1]

\* range(0, stop, step) as a set
Range(stop, step) == {i \in 0..(stop - 1) : i % step = 0}

\* _is_likely_invalid_capture line 57-79, for an image of height 1
_is_likely_invalid_capture(image_rgb) ==
    IF image_rgb = NoImage \/ WidthOf(image_rgb) <= 0 THEN TRUE
    ELSE LET width == WidthOf(image_rgb)
             xs == Range(width, IF width \div 6 >= 1 THEN width \div 6 ELSE 1)
             total == Cardinality(xs)
             dark_like == Cardinality({x \in xs : /\ getpixel(image_rgb, x)[1] <= 4
                                                  /\ getpixel(image_rgb, x)[2] <= 4
                                                  /\ getpixel(image_rgb, x)[3] <= 4})
         IN  IF total = 0 THEN TRUE ELSE 10 * dark_like >= 9 * total

\* _store_screenshot line 47-55; convert_ok is FALSE when convert("RGB") raises.
_store_screenshot(screenshot, convert_ok) ==
    [shot |-> screenshot,
     rgb |-> IF screenshot = NoImage \/ ~convert_ok THEN NoImage ELSE screenshot]

\* _get_screenshot_rgb line 81-111: the image it returns, with the cache and
\* the backend it leaves.  grab and auto are what ImageGrab.grab() and
\* pyautogui.screenshot() give, NoImage when the call raises or the module is
\* missing.
_get_screenshot_rgb(convert_ok, grab, auto) ==
    IF _last_screenshot_rgb # NoImage
    THEN [shot |-> _last_screenshot, rgb |-> _last_screenshot_rgb, backend |-> "cache"]
    ELSE IF _last_screenshot # NoImage
    THEN [shot |-> _last_screenshot,
          rgb |-> _store_screenshot(_last_screenshot, convert_ok).rgb,
          backend |-> "cache"]
    ELSE LET falls_back == (grab = NoImage \/ _is_likely_invalid_capture(grab))
                              /\ auto # NoImage
             screenshot_rgb == IF falls_back THEN auto ELSE grab
         IN  [shot |-> _last_screenshot,
              rgb |-> screenshot_rgb,
              backend |-> IF screenshot_rgb = NoImage THEN "none"
                          ELSE IF falls_back THEN "pyautogui" ELSE "imagegrab"]

\* (0.2126 * r) + (0.7152 * g) + (0.0722 * b), in ten-thousandths
Luminance(pixel) == 2126 * pixel[1] + 7152 * pixel[2] + 722 * pixel[3]

\* range(-radius, radius + 1, step) with radius 12 and step 4
NeighborhoodOffsets == <<-12, -8, -4, 0, 4, 8, 12>>

Clamped(v, lo, hi) == IF v < lo THEN lo ELSE IF v > hi THEN hi ELSE v

RECURSIVE RowLuminance(_, _, _)
RowLuminance(screenshot, px, i) ==
    IF i = 0 THEN 0
    ELSE Luminance(getpixel(screenshot,
                            Clamped(px + NeighborhoodOffsets[i], 0, WidthOf(screenshot) - 1)))
         + RowLuminance(screenshot, px, i - 1)

\* _is_dark_at line 160-196 on the image _get_screenshot_rgb returned: every
\* one of the seven rows of the neighborhood is the image's only row.
_is_dark_at(screenshot, x, threshold) ==
    IF screenshot = NoImage \/ WidthOf(screenshot) <= 0 THEN _last_dark_sample
    ELSE LET px == Clamped(x, 0, WidthOf(screenshot) - 1)
             rows == Len(NeighborhoodOffsets)
             luminance_sum == rows * RowLuminance(screenshot, px, Len(NeighborhoodOffsets))
             sample_count == rows * Len(NeighborhoodOffsets)
         IN  luminance_sum < threshold * 10000 * sample_count

\* _get_palette line 113-158: the mode of the palette
_get_palette(prefer_light_text) ==
    IF prefer_light_text THEN "light-on-dark" ELSE "dark-on-light"

NotSampled == [fn |-> "none", x |-> 0, image |-> NoImage, before |-> FALSE,
               is_dark |-> FALSE, mode |-> "none"]

\* __init__ line 36-40
InitTheme ==
    /\ _last_screenshot = NoImage
    /\ _last_screenshot_rgb = NoImage
    /\ _last_capture_backend = "none"
    /\ _last_dark_sample = FALSE
    /\ sampled = NotSampled

otherThanTheme == <<routerVars, stop_requested, now, appVars, serverVars, layoutVars,
                    registryVars, coordVars, agentVars>>

\* _handle_client line 353-359: the capture_screenshot event stores what the
\* capture callback returned.
CaptureScreenshot ==
    /\ \E screenshot \in Images, convert_ok \in BOOLEAN :
         /\ _last_screenshot' = _store_screenshot(screenshot, convert_ok).shot
         /\ _last_screenshot_rgb' = _store_screenshot(screenshot, convert_ok).rgb
    /\ UNCHANGED <<otherThanTheme, _last_capture_backend, _last_dark_sample, sampled>>

\* One call of _is_dark_at from a _theme_for_ function: fetch the image,
\* sample it, remember the decision, choose the palette.
Sample(fn, x, threshold, inverted) ==
    \E convert_ok \in BOOLEAN, grab \in Grabs, auto \in Grabs :
       LET got == _get_screenshot_rgb(convert_ok, grab, auto)
           is_dark == _is_dark_at(got.rgb, x, threshold)
       IN  /\ _last_screenshot' = got.shot
           /\ _last_screenshot_rgb' = got.rgb
           /\ _last_capture_backend' = got.backend
           /\ _last_dark_sample' = is_dark
           /\ sampled' = [fn |-> fn, x |-> x, image |-> got.rgb,
                          before |-> _last_dark_sample, is_dark |-> is_dark,
                          mode |-> _get_palette(IF inverted THEN ~is_dark ELSE is_dark)]
           /\ UNCHANGED otherThanTheme

\* _theme_for_point line 198-200, called for draw_box (line 265)
ThemeForPoint ==
    \E x \in {0, 9} : Sample("_theme_for_point", x, DARK_LUMINANCE_THRESHOLD, FALSE)

\* _theme_for_text line 202-204, called for draw_text (line 273)
ThemeForText ==
    \E x \in {0, 9} : Sample("_theme_for_text", x, INVERTED_PANEL_DARK_THRESHOLD, TRUE)

\* _theme_for_status line 206-217: the middle of the screen's top strip
ThemeForStatus ==
    Sample("_theme_for_status", 5, STATUS_INVERTED_PANEL_DARK_THRESHOLD, TRUE)

NextTheme ==
    \/ CaptureScreenshot
    \/ ThemeForPoint
    \/ ThemeForText
    \/ ThemeForStatus

\* C20: a call of the sampler that had no image, or an image that is likely
\* invalid, has returned the decision of the call before it and has left
\* that decision in place.
C20_RetainsLastDecision ==
    (/\ sampled.fn # "none"
     /\ sampled.image = NoImage \/ _is_likely_invalid_capture(sampled.image))
       => /\ sampled.is_dark = sampled.before
          /\ _last_dark_sample = sampled.before

(***************************************************************************)
(* agents/cua_cli/agent.py: CLIAgent                                       *)
(*                                                                         *)
(* One execute call at a time, one step per await; the class-wide table    *)
(* of background processes lives across calls.  Task texts, outputs and    *)
(* shell commands are concrete strings; what the regular expressions of    *)
(* the source answer on them is tabulated.  In a task text ' stands for    *)
(* the backtick.                                                           *)
(***************************************************************************)
MaxCliCalls == 3

MaxProcesses == 2

CliTasks ==
    { "list background processes",
      "stop all background processes",
      "stop background process 1",
      "Run 'npm run dev' on port 3000",
      "Run this in background and keep it running on localhost: 'sleep 30'",
      "Run 'ls -la'",
      "command: uvicorn app:app --port 8000",
      "start npm run dev",
      "Start the dev server on port 3000",
      "Clone the repo, install and start the dev server on port 3000" }

\* the timeout argument of execute: the default, and one below the short one
CliTimeouts == {2, 300}

NoCommand == ""

NoPort == 0

\* line 213-234: a backticked command, else a "command:" line, else a line
\* that begins with run/start/launch and names a known tool
_extract_explicit_shell_command(task) ==
    CASE task = "Run 'npm run dev' on port 3000" -> "npm run dev"
      [] task = "Run this in background and keep it running on localhost: 'sleep 30'"
              -> "sleep 30"
      [] task = "Run 'ls -la'" -> "ls -la"
      [] task = "command: uvicorn app:app --port 8000" -> "uvicorn app:app --port 8000"
      [] task = "start npm run dev" -> "npm run dev"
      [] OTHER -> NoCommand

\* The form of the task that yielded the explicit command.
ExplicitForm(task) ==
    CASE task \in { "Run 'npm run dev' on port 3000", "Run 'ls -la'",
                    "Run this in background and keep it running on localhost: 'sleep 30'" }
              -> "backticks"
      [] task = "command: uvicorn app:app --port 8000" -> "command_line"
      [] task = "start npm run dev" -> "run_line"
      [] OTHER -> "none"

\* line 236-253
_is_server_like_command(command) ==
    command \in {"npm run dev", "npm start", "uvicorn app:app --port 8000"}

\* line 257-267: the task texts that hold one of the intent markers
HasIntentMarker(task) ==
    task \in { "list background processes", "stop all background processes",
               "stop background process 1",
               "Run 'npm run dev' on port 3000",
               "Run this in background and keep it running on localhost: 'sleep 30'",
               "command: uvicorn app:app --port 8000",
               "Start the dev server on port 3000",
               "Clone the repo, install and start the dev server on port 3000" }

\* pop() that leaves the entry in place
Mut_Without(table, ids) == table

\* background intent from the command alone
Mut_is_background_intent_task(task, command) == _is_server_like_command(command)

\* line 255-268
_is_background_intent_task(task, command) ==
    _is_server_like_command(command) \/ HasIntentMarker(task)

\* line 290-322
_is_quick_server_launch_task(task) ==
    task \in { "Run 'npm run dev' on port 3000",
               "Run this in background and keep it running on localhost: 'sleep 30'",
               "command: uvicorn app:app --port 8000",
               "start npm run dev",
               "Start the dev server on port 3000" }

\* The ports one piece of text names (line 324-333 on that piece).
PortsOf(text) ==
    CASE text \in { "Run 'npm run dev' on port 3000",
                    "Start the dev server on port 3000",
                    "Clone the repo, install and start the dev server on port 3000",
                    "Server running at http://localhost:3000" } -> {3000}
      [] text \in { "command: uvicorn app:app --port 8000",
                    "uvicorn app:app --port 8000" } -> {8000}
      [] OTHER -> {}

\* line 324-333, on the pieces its callers join with newlines
_extract_port_candidates(pieces) == UNION {PortsOf(text) : text \in pieces}

CliOutputs ==
    { "Done.", "Server running at http://localhost:3000",
      "I cannot run commands on your machine." }

\* line 682-691
_looks_like_execution_refusal(text) == text = "I cannot run commands on your machine."

\* line 606-610: the output names localhost or a port and says it is running
ClaimsLocalServer(output_text) == output_text = "Server running at http://localhost:3000"

\* The tool calls of a run, each by its shell command.
ToolTraces == { <<>>, <<"ls -la">>, <<"cd ~/demo && npm start">> }

\* line 391-404: what follows "cd X &&" in a command
CdChainRemaining(command) ==
    IF command = "cd ~/demo && npm start" THEN "npm start" ELSE NoCommand

\* line 367-419: the last server-like command of the calls
_infer_server_launch_from_tool_calls(tool_calls) ==
    LET launch(command) ==
            IF CdChainRemaining(command) # NoCommand
            THEN IF _is_server_like_command(CdChainRemaining(command))
                 THEN CdChainRemaining(command) ELSE NoCommand
            ELSE IF _is_server_like_command(command) THEN command ELSE NoCommand
        hits == {i \in 1..Len(tool_calls) : launch(tool_calls[i]) # NoCommand}
    IN  IF hits = {} THEN NoCommand
        ELSE launch(tool_calls[CHOOSE i \in hits : \A j \in hits : j <= i])

\* line 35-41
_clean_join_text(a, b) ==
    IF a = "" THEN b ELSE IF b = "" THEN a ELSE a \o " | " \o b

\* line 1004: the message of a run whose timeout fired
TimeoutMessage(timeout) ==
    CASE timeout = 2 -> "CLI task timed out after 2 seconds"
      [] timeout = 3 -> "CLI task timed out after 3 seconds"
      [] OTHER -> "CLI task timed out after 300 seconds"

\* what _parse_stream_json leaves in error: nothing, or the stream's error
ParsedErrors == {"", "Task failed"}

\* line 676-679
_is_timeout_error_text(text) ==
    text \in {_clean_join_text(error, TimeoutMessage(t)) : error \in ParsedErrors,
                                                           t \in {2, 3, 300}}

NoResponse == [success |-> FALSE, output |-> "", error |-> "", tool_calls |-> <<>>]

\* line 1055-1060: success goes with a zero return code and no error
ParsedResponses ==
    {[success |-> error = "", output |-> output, error |-> error, tool_calls |-> calls] :
        output \in CliOutputs, error \in ParsedErrors, calls \in ToolTraces}

\* _run_cli line 1003-1007 without the timeout message: the response of the
\* killed run is passed on as parsed.
Mut_TimedOutResponses(timeout) ==
    {[success |-> FALSE, output |-> output, error |-> error, tool_calls |-> calls] :
        output \in CliOutputs, error \in ParsedErrors, calls \in ToolTraces}

\* _parse_stream_json on what a killed run had written (line 988-1006): the
\* timeout message joins the parsed error, success is cleared.
TimedOutResponses(timeout) ==
    {[success |-> FALSE, output |-> output,
      error |-> _clean_join_text(error, TimeoutMessage(timeout)), tool_calls |-> calls] :
        output \in CliOutputs, error \in ParsedErrors, calls \in ToolTraces}

\* A run that ended by itself: a non-zero return code may come with an empty
\* stderr and no error event.
CompletedResponses ==
    ParsedResponses \cup
    {[success |-> FALSE, output |-> output, error |-> "", tool_calls |-> calls] :
        output \in CliOutputs, calls \in ToolTraces}

NoSubprocess == [proc |-> "none", readers |-> "none"]

NoStart == [command |-> NoCommand, from |-> "none", id |-> 0, ports |-> {}]

NoCliResult ==
    [success |-> FALSE, kind |-> "pending", output |-> "", error |-> "",
     process |-> 0, port |-> NoPort, ids |-> {}]

CliResult(success, kind, output, error) ==
    [success |-> success, kind |-> kind, output |-> output, error |-> error,
     process |-> 0, port |-> NoPort, ids |-> {}]

NoProcesses == [id \in {} |-> NoStart]

\* class attributes line 57-58, and no call under way
InitCli ==
    /\ _managed_background_processes = NoProcesses
    /\ os_processes = NoProcesses
    /\ stopped = {}
    /\ at_exit_ran = FALSE
    /\ cli_pc = "idle"
    /\ cli_task = ""
    /\ cli_timeout = 0
    /\ run_timeout = 0
    /\ short_timeout_applied = FALSE
    /\ cli_stage = "none"
    /\ subprocess = NoSubprocess
    /\ response = NoResponse
    /\ cli_runs = <<>>
    /\ port_waits = <<>>
    /\ starting = NoStart
    /\ cli_result = NoCliResult
    /\ cli_calls = 0

otherThanCli == <<routerVars, stop_requested, now, appVars, serverVars, layoutVars,
                  registryVars, coordVars, themeVars, visionVars, browserVars, directVars,
                  zoomVars, broadcastVars>>

Without(table, ids) == [id \in DOMAIN table \ ids |-> table[id]]

\* os.killpg(pgid, SIGTERM) on each of the ids
Sigterm(processes, ids) ==
    [id \in DOMAIN processes |->
        IF id \in ids THEN [processes[id] EXCEPT !.state = "terminated"] ELSE processes[id]]

IsListTask(task) == task = "list background processes"

IsStopAllTask(task) == task = "stop all background processes"

\* line 592-594: the id that follows "stop background process"
StopTarget(task) ==
    IF task = "stop background process 1" THEN 1 ELSE 0

IsManagementTask(task) == IsListTask(task) \/ IsStopAllTask(task) \/ StopTarget(task) # 0

\* The position execute moves to, given as the new values of the call's
\* bookkeeping: a further run, a port wait, a background start, or its return.
Goto(position, stage) ==
    [pc |-> position, stage |-> stage, timeout |-> 0, starting |-> NoStart,
     result |-> NoCliResult]

NextRun(stage, timeout) == [Goto("cli_spawn", stage) EXCEPT !.timeout = timeout]

Return(returned) == [Goto("done", cli_stage) EXCEPT !.result = returned]

\* line 784-789
ReturnResponse(r) == Return(CliResult(r.success, "output", r.output, r.error))

\* line 778-783
ReturnClaimFailure(r) ==
    Return(CliResult(FALSE, "output", r.output,
                     "Task reported a local server as running, but none of the claimed ports are reachable"))

\* line 790-802: what the two except clauses return
ReturnException == Return(CliResult(FALSE, "none", "", "exception"))

\* line 769-771
Validate(r) ==
    IF ClaimsLocalServer(r.output) /\ _extract_port_candidates({r.output}) # {}
    THEN Goto("validate_wait", "validate")
    ELSE ReturnResponse(r)

\* the promotion pass found nothing to promote (line 625-627, 651)
NotPromoted(r, pass) == IF pass = "promote_1" THEN Validate(r) ELSE ReturnClaimFailure(r)

StartOf(command, from) ==
    [command |-> command, from |-> from, id |-> 0, ports |-> {}]

\* _maybe_promote_server_launch_from_tool_calls line 622-637, up to its first await
Promote(r, pass) ==
    LET launch == _infer_server_launch_from_tool_calls(r.tool_calls)
        ports == _extract_port_candidates({cli_task, r.output, launch})
    IN  IF r.tool_calls = <<>> \/ launch = NoCommand THEN NotPromoted(r, pass)
        ELSE IF ports # {}
             THEN [Goto("promote_wait", pass) EXCEPT !.starting = StartOf(launch, pass)]
             ELSE [Goto("bg_spawn", pass) EXCEPT !.starting = StartOf(launch, pass)]

\* execute line 731-764: what follows a finished run
AfterRun(r) ==
    IF /\ cli_stage = "first"
       /\ short_timeout_applied
       /\ _is_timeout_error_text(r.error)
       /\ r.tool_calls = <<>>
    THEN NextRun("full_retry", cli_timeout)
    ELSE IF /\ cli_stage # "refusal_retry"
            /\ r.success
            /\ r.tool_calls = <<>>
            /\ _looks_like_execution_refusal(r.output)
         THEN NextRun("refusal_retry", run_timeout)
         ELSE Promote(r, "promote_1")

Move(step) ==
    /\ cli_pc' = step.pc
    /\ cli_stage' = step.stage
    /\ starting' = step.starting
    /\ cli_result' = step.result
    /\ cli_runs' = IF step.pc = "cli_spawn"
                   THEN Append(cli_runs, [timeout |-> step.timeout, timed_out |-> FALSE])
                   ELSE cli_runs

Awaiting == {"cli_spawn", "run", "reap", "drain", "promote_wait", "validate_wait",
             "bg_spawn", "start_wait"}

\* A call begins: nothing of the call before it is left.
Enter(task, timeout) ==
    /\ cli_pc \in {"idle", "done", "cancelled"}
    /\ ~at_exit_ran
    /\ cli_calls < MaxCliCalls
    /\ cli_task' = task
    /\ cli_timeout' = timeout
    /\ cli_calls' = cli_calls + 1
    /\ subprocess' = NoSubprocess
    /\ response' = NoResponse
    /\ port_waits' = <<>>

\* run_timeout and short_timeout_applied are not assigned on this path
NoRunYet ==
    /\ cli_runs' = <<>>
    /\ run_timeout' = 0
    /\ short_timeout_applied' = FALSE

\* execute line 711-713 with _maybe_handle_background_management_task
\* (line 576-600), which holds no suspension point.
ExecuteManagement(task) ==
    LET table == _managed_background_processes
        ids == DOMAIN table
        proc_id == StopTarget(task)
    IN  /\ IsManagementTask(task)
        /\ cli_stage' = "management"
        /\ cli_pc' = "done"
        /\ starting' = NoStart
        /\ NoRunYet
        /\ \/ /\ IsListTask(task)
              /\ cli_result' = [CliResult(TRUE, IF ids = {} THEN "no_processes" ELSE "listing",
                                          "", "") EXCEPT !.ids = ids]
              /\ UNCHANGED <<_managed_background_processes, os_processes, stopped>>
           \/ /\ ~IsListTask(task) /\ IsStopAllTask(task)
              /\ cli_result' = [CliResult(TRUE, "stopped_all", "", "") EXCEPT !.ids = ids]
              /\ os_processes' = Sigterm(os_processes, ids)
              /\ _managed_background_processes' = Without(table, ids)
              /\ stopped' = stopped \cup ids
           \/ /\ ~IsListTask(task) /\ ~IsStopAllTask(task)
              /\ IF proc_id \in ids
                 THEN /\ cli_result' = [CliResult(TRUE, "stopped_one", "", "")
                                           EXCEPT !.ids = {proc_id}]
                      /\ os_processes' = Sigterm(os_processes, {proc_id})
                      /\ _managed_background_processes' = Without(table, {proc_id})
                      /\ stopped' = stopped \cup {proc_id}
                 ELSE /\ cli_result' = CliResult(FALSE, "none", "", "No background process found")
                      /\ UNCHANGED <<_managed_background_processes, os_processes, stopped>>

\* execute line 715-723: the explicit-command shortcut, up to the await of
\* create_subprocess_exec in _start_background_process
ExecuteShortcut(task) ==
    LET explicit_command == _extract_explicit_shell_command(task)
    IN  /\ ~IsManagementTask(task)
        /\ explicit_command # NoCommand
        /\ _is_background_intent_task(task, explicit_command)
        /\ cli_stage' = "shortcut"
        /\ cli_pc' = "bg_spawn"
        /\ starting' = StartOf(explicit_command, "shortcut")
        /\ cli_result' = NoCliResult
        /\ NoRunYet
        /\ UNCHANGED <<_managed_background_processes, os_processes, stopped>>

\* execute line 725-737: the normal run, up to the await of
\* create_subprocess_exec in _run_cli
ExecuteRun(task, timeout) ==
    LET explicit_command == _extract_explicit_shell_command(task)
        quick == _is_quick_server_launch_task(task)
        short == IF quick /\ 3 < timeout THEN 3 ELSE timeout
    IN  /\ ~IsManagementTask(task)
        /\ ~(explicit_command # NoCommand /\ _is_background_intent_task(task, explicit_command))
        /\ run_timeout' = short
        /\ short_timeout_applied' = (quick /\ short < timeout)
        /\ cli_stage' = "first"
        /\ cli_pc' = "cli_spawn"
        /\ cli_runs' = <<[timeout |-> short, timed_out |-> FALSE]>>
        /\ starting' = NoStart
        /\ cli_result' = NoCliResult
        /\ UNCHANGED <<_managed_background_processes, os_processes, stopped>>

\* execute(task, timeout) line 693-737: one call at a time
Execute ==
    /\ \E task \in CliTasks, timeout \in CliTimeouts :
         /\ Enter(task, timeout)
         /\ \/ ExecuteManagement(task)
            \/ ExecuteShortcut(task)
            \/ ExecuteRun(task, timeout)
    /\ UNCHANGED <<otherThanCli, at_exit_ran>>

CurrentRun == cli_runs[Len(cli_runs)]

\* _run_cli line 929-936: create_subprocess_exec returns, or raises (execute
\* line 796-802 turns that into a failure)
CliSpawn ==
    /\ cli_pc = "cli_spawn"
    /\ \/ /\ subprocess' = [proc |-> "running", readers |-> "reading"]
          /\ cli_pc' = "run"
          /\ UNCHANGED <<cli_stage, starting, cli_result, cli_runs>>
       \/ /\ Move(ReturnException)
          /\ UNCHANGED subprocess
    /\ UNCHANGED <<otherThanCli, _managed_background_processes, os_processes, stopped,
                   at_exit_ran, cli_task, cli_timeout, run_timeout, short_timeout_applied,
                   response, port_waits, cli_calls>>

\* _run_cli line 974-1008 when the process and its readers end in time, and
\* execute line 738-789 up to its next await
RunCompleted ==
    /\ cli_pc = "run"
    /\ \E r \in CompletedResponses :
         /\ response' = r
         /\ Move(AfterRun(r))
    /\ subprocess' = [proc |-> "exited", readers |-> "done"]
    /\ UNCHANGED <<otherThanCli, _managed_background_processes, os_processes, stopped,
                   at_exit_ran, cli_task, cli_timeout, run_timeout, short_timeout_applied,
                   port_waits, cli_calls>>

\* _run_cli line 975-983: wait_for gives up, which cancels the gathered
\* reader and wait tasks; the process is killed and process.wait() awaited
RunTimedOut ==
    /\ cli_pc = "run"
    /\ subprocess' = [proc |-> "killed", readers |-> "cancelled"]
    /\ cli_runs' = [cli_runs EXCEPT ![Len(cli_runs)].timed_out = TRUE]
    /\ cli_pc' = "reap"
    /\ UNCHANGED <<otherThanCli, _managed_background_processes, os_processes, stopped,
                   at_exit_ran, cli_task, cli_timeout, run_timeout, short_timeout_applied,
                   cli_stage, response, port_waits, starting, cli_result, cli_calls>>

\* _run_cli line 983-984: process.wait() returned, the readers are gathered
Reaped ==
    /\ cli_pc = "reap"
    /\ subprocess' = [subprocess EXCEPT !.proc = "reaped"]
    /\ cli_pc' = "drain"
    /\ UNCHANGED <<otherThanCli, _managed_background_processes, os_processes, stopped,
                   at_exit_ran, cli_task, cli_timeout, run_timeout, short_timeout_applied,
                   cli_stage, response, cli_runs, port_waits, starting, cli_result,
                   cli_calls>>

\* _run_cli line 984-1008 for the run that timed out, and execute line 738-789
\* up to its next await
Drained ==
    /\ cli_pc = "drain"
    /\ subprocess' = [subprocess EXCEPT !.readers = "awaited"]
    /\ \E r \in TimedOutResponses(CurrentRun.timeout) :
         /\ response' = r
         /\ Move(AfterRun(r))
    /\ UNCHANGED <<otherThanCli, _managed_background_processes, os_processes, stopped,
                   at_exit_ran, cli_task, cli_timeout, run_timeout, short_timeout_applied,
                   port_waits, cli_calls>>

Waited(seconds, ports, opened) ==
    Append(port_waits, [seconds |-> seconds, ports |-> ports, opened |-> opened])

\* _maybe_promote_server_launch_from_tool_calls line 637-659 after its wait
\* of 1.2 seconds (tenths of a second here)
PromoteWaitDone ==
    /\ cli_pc = "promote_wait"
    /\ LET ports == _extract_port_candidates({cli_task, response.output, starting.command})
       IN  \E opened \in ports \cup {NoPort} :
             /\ port_waits' = Waited(12, ports, opened)
             /\ IF opened # NoPort
                THEN IF _is_timeout_error_text(response.error)
                     THEN Move(Return([CliResult(TRUE, "reachable", response.output, "")
                                          EXCEPT !.port = opened]))
                     ELSE Move(NotPromoted(response, cli_stage))
                ELSE Move([Goto("bg_spawn", cli_stage) EXCEPT !.starting = starting])
    /\ UNCHANGED <<otherThanCli, _managed_background_processes, os_processes, stopped,
                   at_exit_ran, cli_task, cli_timeout, run_timeout, short_timeout_applied,
                   subprocess, response, cli_calls>>

\* _validate_local_server_claim line 614-620 after its wait of 15 seconds,
\* and execute line 770-789
ValidateWaitDone ==
    /\ cli_pc = "validate_wait"
    /\ LET ports == _extract_port_candidates({response.output})
       IN  \E opened \in ports \cup {NoPort} :
             /\ port_waits' = Waited(150, ports, opened)
             /\ IF opened # NoPort
                THEN Move(ReturnResponse(response))
                ELSE IF response.tool_calls # <<>>
                     THEN Move(Promote(response, "promote_2"))
                     ELSE Move(ReturnClaimFailure(response))
    /\ UNCHANGED <<otherThanCli, _managed_background_processes, os_processes, stopped,
                   at_exit_ran, cli_task, cli_timeout, run_timeout, short_timeout_applied,
                   subprocess, response, cli_calls>>

Put(table, id, entry) ==
    [i \in DOMAIN table \cup {id} |-> IF i = id THEN entry ELSE table[i]]

\* _start_background_process line 492-516: the table entry is written and the
\* record of the start returned; _maybe_promote_server_launch_from_tool_calls
\* line 661-673 passes it on with the output of the run before it.
FinishStart(id, command, ports, opened) ==
    /\ _managed_background_processes' =
           Put(_managed_background_processes, id,
               [command |-> command, ports |-> ports, active_port |-> opened])
    /\ Move(Return([CliResult(TRUE, "started",
                              IF starting.from = "shortcut" THEN "" ELSE response.output, "")
                       EXCEPT !.process = id, !.port = opened]))

\* _start_background_process line 451-490: create_subprocess_exec returns the
\* new process group, or raises; with no port to wait for the start finishes.
BgSpawn ==
    /\ cli_pc = "bg_spawn"
    /\ \/ LET id == Cardinality(DOMAIN os_processes) + 1
              ports == _extract_port_candidates({cli_task, starting.command})
          IN  /\ id <= MaxProcesses
              /\ IF ports # {}
                 THEN /\ os_processes' = Put(os_processes, id,
                             [state |-> "running", started |-> FALSE])
                      /\ starting' = [starting EXCEPT !.id = id, !.ports = ports]
                      /\ cli_pc' = "start_wait"
                      /\ UNCHANGED <<_managed_background_processes, cli_stage, cli_result,
                                     cli_runs>>
                 ELSE /\ os_processes' = Put(os_processes, id,
                             [state |-> "running", started |-> TRUE])
                      /\ FinishStart(id, starting.command, ports, NoPort)
       \/ /\ Move(ReturnException)
          /\ UNCHANGED <<_managed_background_processes, os_processes>>
    /\ UNCHANGED <<otherThanCli, stopped, at_exit_ran, cli_task, cli_timeout, run_timeout,
                   short_timeout_applied, subprocess, response, port_waits, cli_calls>>

\* _start_background_process line 486-516 after its wait of 20 seconds
StartWaitDone ==
    /\ cli_pc = "start_wait"
    /\ \E opened \in starting.ports \cup {NoPort} :
         /\ port_waits' = Waited(200, starting.ports, opened)
         /\ FinishStart(starting.id, starting.command, starting.ports, opened)
    /\ os_processes' = [os_processes EXCEPT ![starting.id].started = TRUE]
    /\ UNCHANGED <<otherThanCli, stopped, at_exit_ran, cli_task, cli_timeout, run_timeout,
                   short_timeout_applied, subprocess, response, cli_calls>>

\* app.py line 55: the session task is cancelled while execute is suspended;
\* CancelledError leaves execute through neither except clause.  In _run_cli
\* (line 974-984) the cancelled wait_for cancels the gathered reader and wait
\* tasks; only the TimeoutError clause kills the process.
CancelExecute ==
    /\ cli_pc \in Awaiting
    /\ cli_pc' = "cancelled"
    /\ subprocess' = IF cli_pc = "run" THEN [subprocess EXCEPT !.readers = "cancelled"]
                     ELSE subprocess
    /\ UNCHANGED <<otherThanCli, _managed_background_processes, os_processes, stopped,
                   at_exit_ran, cli_task, cli_timeout, run_timeout, short_timeout_applied,
                   cli_stage, response, cli_runs, port_waits, starting,
                   cli_result, cli_calls>>

\* _cleanup_background_processes_sync line 518-531, registered with atexit
\* (line 136-141)
AtExit ==
    /\ cli_pc \in {"idle", "done", "cancelled"}
    /\ ~at_exit_ran
    /\ at_exit_ran' = TRUE
    /\ os_processes' = Sigterm(os_processes, DOMAIN _managed_background_processes)
    /\ _managed_background_processes' =
           Without(_managed_background_processes, DOMAIN _managed_background_processes)
    /\ UNCHANGED <<otherThanCli, stopped, cli_pc, cli_task, cli_timeout, run_timeout,
                   short_timeout_applied, cli_stage, subprocess, response, cli_runs,
                   port_waits, starting, cli_result, cli_calls>>

NextCli ==
    \/ Execute
    \/ CliSpawn
    \/ RunCompleted
    \/ RunTimedOut
    \/ Reaped
    \/ Drained
    \/ PromoteWaitDone
    \/ ValidateWaitDone
    \/ BgSpawn
    \/ StartWaitDone
    \/ CancelExecute
    \/ AtExit

LastRunTimedOut == cli_runs # <<>> /\ CurrentRun.timed_out

SomeRunTimedOut == \E i \in 1..Len(cli_runs) : cli_runs[i].timed_out

\* execute has the response of its last run in hand
PastTheRun == cli_pc \in {"promote_wait", "validate_wait", "bg_spawn", "start_wait", "done"}

RevealsLaunch(r) == _infer_server_launch_from_tool_calls(r.tool_calls) # NoCommand

LastWait == port_waits[Len(port_waits)]

ValidationExpired ==
    \E i \in 1..Len(port_waits) :
        port_waits[i].seconds = 150 /\ port_waits[i].opened = NoPort

\* C22: when the output of the run claimed a local server and the wait of 15
\* seconds of the validation saw none of its ports answer, execute returns
\* success=false, unless it started a background process that answered on
\* one of its ports.
C22_UnverifiedClaimFails ==
    (cli_pc = "done" /\ ValidationExpired)
      => \/ ~cli_result.success
         \/ cli_result.kind = "started" /\ cli_result.port # NoPort

\* C23: a background process that was launched and not stopped on request is
\* in the managed table from its launch on, and so has been sent SIGTERM once
\* the at-exit hook has run.
C23_LaunchedProcessesManaged ==
    /\ ~at_exit_ran =>
         \A id \in DOMAIN os_processes \ stopped : id \in DOMAIN _managed_background_processes
    /\ at_exit_ran =>
         \A id \in DOMAIN os_processes : os_processes[id].state = "terminated"

ManagementStep == cli_calls' = cli_calls + 1 /\ cli_stage' = "management"

\* C24: the table holds exactly the processes whose start has returned and
\* that were not stopped since; the id a start returns is in the table; a
\* listing names the ids of the table; stop of an id of the table returns
\* true and removes that entry alone, stop of any other id returns false and
\* changes nothing; stop_all empties the table and reports as many stops as
\* the table had entries.
C24_TableHoldsStartedProcesses ==
    /\ [](DOMAIN _managed_background_processes =
            {id \in DOMAIN os_processes :
                os_processes[id].started /\ os_processes[id].state = "running"})
    /\ []((cli_pc = "done" /\ cli_result.kind = "started" /\ ~at_exit_ran)
            => cli_result.process \in DOMAIN _managed_background_processes)
    /\ [][ManagementStep =>
            LET table == _managed_background_processes
                after == _managed_background_processes'
                proc_id == StopTarget(cli_task')
            IN  /\ IsListTask(cli_task') =>
                     /\ cli_result'.success /\ cli_result'.ids = DOMAIN table
                     /\ after = table
                /\ IsStopAllTask(cli_task') =>
                     /\ cli_result'.success /\ cli_result'.ids = DOMAIN table
                     /\ DOMAIN after = {}
                     /\ \A id \in DOMAIN table : os_processes'[id].state = "terminated"
                /\ (proc_id # 0 /\ proc_id \in DOMAIN table) =>
                     /\ cli_result'.success /\ cli_result'.kind = "stopped_one"
                     /\ DOMAIN after = DOMAIN table \ {proc_id}
                     /\ \A id \in DOMAIN after : after[id] = table[id]
                     /\ os_processes'[proc_id].state = "terminated"
                /\ (proc_id # 0 /\ proc_id \notin DOMAIN table) =>
                     /\ ~cli_result'.success
                     /\ after = table
                     /\ os_processes' = os_processes]_vars

\* Two processes were started and the first was stopped: the second is
\* all that the table holds.
C24_StoppedOneOfTwo ==
    /\ cli_pc = "done"
    /\ cli_result.kind = "stopped_one" /\ cli_result.success
    /\ DOMAIN os_processes = {1, 2}
    /\ DOMAIN _managed_background_processes = {2}
    /\ os_processes[1].state = "terminated"
    /\ os_processes[2].state = "running"

RunStages == {"first", "full_retry", "refusal_retry", "promote_1", "validate", "promote_2"}

\* C25 as stated: the shortcut is taken exactly for a backticked command or a
\* "command:" line that is server-like; any other explicit command goes to
\* the normal CLI run.
C25_ShortcutOnlyForServerLike ==
    cli_stage # "none" =>
      LET command == _extract_explicit_shell_command(cli_task)
      IN  /\ cli_stage = "shortcut" <=>
                /\ ExplicitForm(cli_task) \in {"backticks", "command_line"}
                /\ _is_server_like_command(command)
          /\ (command # NoCommand /\ ~_is_server_like_command(command))
                => cli_stage \in RunStages

\* C25: the shortcut is taken, with no CLI run, exactly when the task is not
\* a background-management task, an explicit command is found in it (in
\* backticks, on a "command:" line, or after a leading run/start/launch) and
\* the command is server-like or the task text holds a background-intent
\* marker; every other task that is not a management task goes to the normal
\* CLI run.
C25_ShortcutForBackgroundIntent ==
    cli_stage # "none" =>
      LET command == _extract_explicit_shell_command(cli_task)
          shortcut == /\ ~IsManagementTask(cli_task)
                      /\ command # NoCommand
                      /\ _is_server_like_command(command) \/ HasIntentMarker(cli_task)
      IN  /\ cli_stage = "shortcut" <=> shortcut
          /\ cli_stage = "shortcut" =>
                /\ cli_runs = <<>>
                /\ cli_pc \in {"bg_spawn", "start_wait", "done", "cancelled"}
                /\ (cli_pc = "done" /\ cli_result.success) => cli_result.kind = "started"
          /\ (~IsManagementTask(cli_task) /\ ~shortcut)
                => cli_stage \in RunStages /\ cli_runs # <<>>

\* The command in backticks is not server-like, the task asks to keep it
\* running in the background: it was started without a CLI run.
C25_SleepStartedByIntent ==
    /\ cli_task = "Run this in background and keep it running on localhost: 'sleep 30'"
    /\ cli_pc = "done"
    /\ cli_runs = <<>>
    /\ cli_result.success /\ cli_result.kind = "started"
    /\ cli_result.process \in DOMAIN _managed_background_processes

\* C26: when the last port wait of a call ran to its deadline with no port
\* reachable, the wait of 20 seconds after a background start included,
\* execute returns success=false with an error message.
C26_ExpiredPortWaitFails ==
    (cli_pc = "done" /\ port_waits # <<>> /\ LastWait.opened = NoPort)
      => ~cli_result.success /\ cli_result.error # ""

(***************************************************************************)
(* agents/cua_vision/single_call.py: SingleCallVisionEngine                *)
(***************************************************************************)
\* line 45
POSITIONING_TOOLS == {"go_to_element", "crop_and_search"}

\* line 35-39: the click tools (the keys of the dict)
CLICK_TOOL_TO_TYPE == {"click_left_click", "click_double_left_click", "click_right_click"}

MaxBatchLen == 4

\* The function names a model response may hold.
ToolNames ==
    {"go_to_element", "crop_and_search", "click_left_click", "type_string",
     "task_is_complete"}

RawBatches == UNION {[1..n -> ToolNames] : n \in 1..MaxBatchLen}

Take(calls, n) == SubSeq(calls, 1, n)

\* _normalize_function_call_batch with every multi-call batch cut to two
Mut_normalize_function_call_batch(function_calls) ==
    IF Len(function_calls) <= 1 THEN function_calls ELSE Take(function_calls, 2)

\* _normalize_function_call_batch line 238-276, on the names of the calls
_normalize_function_call_batch(function_calls) ==
    IF Len(function_calls) <= 1 THEN function_calls
    ELSE LET first == function_calls[1]
             second == function_calls[2]
         IN  IF first = "task_is_complete" THEN <<first>>
             ELSE IF first \in POSITIONING_TOOLS /\ second \in CLICK_TOOL_TO_TYPE
                  THEN IF Len(function_calls) >= 3 /\ function_calls[3] = "task_is_complete"
                       THEN Take(function_calls, 3)
                       ELSE Take(function_calls, 2)
                  ELSE IF first \in CLICK_TOOL_TO_TYPE /\ second = "task_is_complete"
                       THEN Take(function_calls, 2)
                       ELSE <<first>>

NoBatch == [given |-> <<>>, normalized |-> <<>>]

InitVision ==
    /\ batch = NoBatch

otherThanVision == <<routerVars, now, appVars, serverVars, layoutVars, registryVars, coordVars,
                     themeVars, cliVars, browserVars, directVars, zoomVars, broadcastVars>>

\* run line 110: the calls of one model response are normalised
NormalizeBatch ==
    /\ batch = NoBatch
    /\ \E function_calls \in RawBatches :
         batch' = [given |-> function_calls,
                   normalized |-> _normalize_function_call_batch(function_calls)]
    /\ UNCHANGED <<otherThanVision, stop_requested, engineVars>>

NextBatch == NormalizeBatch

Clicks(calls) == {i \in 1..Len(calls) : calls[i] \in CLICK_TOOL_TO_TYPE}

IsPrefix(short, long) == Len(short) <= Len(long) /\ short = Take(long, Len(short))

PositionClick(calls) ==
    Len(calls) >= 2 /\ calls[1] \in POSITIONING_TOOLS /\ calls[2] \in CLICK_TOOL_TO_TYPE

\* C28 as stated: the normalised batch is a single call, a (position, click)
\* pair or a (position, click, complete) triple, taken from the front of the
\* batch given, with at most one click in it.
C28_ThreeShapes ==
    batch # NoBatch =>
      LET calls == batch.normalized
      IN  /\ \/ Len(calls) = 1
             \/ Len(calls) = 2 /\ PositionClick(calls)
             \/ Len(calls) = 3 /\ PositionClick(calls) /\ calls[3] = "task_is_complete"
          /\ IsPrefix(calls, batch.given)
          /\ Cardinality(Clicks(calls)) <= 1

\* C28: the normalised batch is a single call, a (position, click) pair, a
\* (position, click, complete) triple or a (click, complete) pair, taken from
\* the front of the batch given, with at most one click in it.
C28_FourShapes ==
    batch # NoBatch =>
      LET calls == batch.normalized
      IN  /\ \/ Len(calls) = 1
             \/ Len(calls) = 2 /\ PositionClick(calls)
             \/ Len(calls) = 3 /\ PositionClick(calls) /\ calls[3] = "task_is_complete"
             \/ /\ Len(calls) = 2
                /\ calls[1] \in CLICK_TOOL_TO_TYPE /\ calls[2] = "task_is_complete"
          /\ IsPrefix(calls, batch.given)
          /\ Cardinality(Clicks(calls)) <= 1

\* A click, the completion and a further call were given: the click and the
\* completion are kept.
C28_ClickCompleteKept ==
    /\ batch.given = <<"click_left_click", "task_is_complete", "type_string">>
    /\ batch.normalized = <<"click_left_click", "task_is_complete">>

(***************************************************************************)
(* SingleCallVisionEngine.run, one step per await.  A call is its name,    *)
(* the bucket of its box (0 when it has none) and the target_description   *)
(* it was given ("" when none).                                            *)
(***************************************************************************)
MaxResponses == 4

\* line 47, 49, 77 and agent.py line 68
AUTO_CLICK_AFTER_REPEAT_POSITIONING_THRESHOLD == 2

CLICK_CYCLE_LOOP_STOP_THRESHOLD == 4

max_failures_before_fallback == 3

max_retries == 3

VisionTasks ==
    {"Open Settings and change appearance to Light Mode.",
     "Click the plus button 10 times."}

\* _task_expects_repeated_clicks line 502-515: the task texts that hold one of the markers
_task_expects_repeated_clicks(task) == task = "Click the plus button 10 times."

Call(name, bucket, target) == [name |-> name, bucket |-> bucket, target |-> target]

GoToA == Call("go_to_element", 1, "Light mode option")

GoToB == Call("go_to_element", 2, "Appearance tab")

Click == Call("click_left_click", 0, "")

TypeString == Call("type_string", 0, "")

Complete == Call("task_is_complete", 0, "")

\* The function calls of one model response.
EngineBatches ==
    { <<>>, <<GoToA>>, <<GoToB>>, <<Click>>, <<TypeString>>, <<Complete>>,
      <<GoToA, Click>>, <<GoToA, Click, Complete>>, <<Click, Click>> }

Names(calls) == [i \in 1..Len(calls) |-> calls[i].name]

NoSignature == [name |-> "", bucket |-> 0, target |-> ""]

\* _action_signature line 484-493: a positioning call by its bucket, a click
\* by the target last resolved, any other call by its name
_action_signature(call, last_target_description) ==
    IF call.name \in POSITIONING_TOOLS THEN [name |-> call.name, bucket |-> call.bucket,
                                            target |-> ""]
    ELSE IF call.name \in CLICK_TOOL_TO_TYPE
         THEN [name |-> call.name, bucket |-> 0, target |-> last_target_description]
         ELSE [name |-> call.name, bucket |-> 0, target |-> ""]

\* _resolve_target_description line 586-613, for calls without status_text
_resolve_target_description(task, call, last_target_description) ==
    IF call.target # "" THEN call.target
    ELSE IF last_target_description # "" THEN last_target_description
         ELSE "best target for task"

NoCycle == <<NoSignature, NoSignature>>

\* __init__ line 74-92
NewEngine ==
    [consecutive_failures |-> 0,
     last_action_signature |-> NoSignature,
     repeated_action_count |-> 0,
     last_click_context |-> "",
     last_target_description |-> "",
     _pending_position_signature |-> NoSignature,
     _last_click_cycle_signature |-> NoCycle,
     _repeated_click_cycle_count |-> 0]

\* _register_action_and_detect_click_loop line 517-554 that fires one cycle late
Mut_register_action_and_detect_click_loop(e, task, name, signature) ==
    IF name \in POSITIONING_TOOLS
    THEN [engine |-> [e EXCEPT !._pending_position_signature = signature], fired |-> FALSE]
    ELSE IF name \in CLICK_TOOL_TO_TYPE
         THEN IF e._pending_position_signature = NoSignature
              THEN [engine |-> e, fired |-> FALSE]
              ELSE LET cycle == <<e._pending_position_signature, signature>>
                       count == IF cycle = e._last_click_cycle_signature
                                THEN e._repeated_click_cycle_count + 1 ELSE 1
                   IN  [engine |-> [e EXCEPT !._last_click_cycle_signature = cycle,
                                             !._repeated_click_cycle_count = count],
                        fired |-> /\ count > CLICK_CYCLE_LOOP_STOP_THRESHOLD
                                  /\ ~_task_expects_repeated_clicks(task)]
         ELSE [engine |-> [e EXCEPT !._pending_position_signature = NoSignature,
                                    !._last_click_cycle_signature = NoCycle,
                                    !._repeated_click_cycle_count = 0],
               fired |-> FALSE]

\* _register_action_and_detect_click_loop line 517-554: the engine after the
\* call, and what the call returned
_register_action_and_detect_click_loop(e, task, name, signature) ==
    IF name \in POSITIONING_TOOLS
    THEN [engine |-> [e EXCEPT !._pending_position_signature = signature], fired |-> FALSE]
    ELSE IF name \in CLICK_TOOL_TO_TYPE
         THEN IF e._pending_position_signature = NoSignature
              THEN [engine |-> e, fired |-> FALSE]
              ELSE LET cycle == <<e._pending_position_signature, signature>>
                       count == IF cycle = e._last_click_cycle_signature
                                THEN e._repeated_click_cycle_count + 1 ELSE 1
                   IN  [engine |-> [e EXCEPT !._last_click_cycle_signature = cycle,
                                             !._repeated_click_cycle_count = count],
                        fired |-> /\ count >= CLICK_CYCLE_LOOP_STOP_THRESHOLD
                                  /\ ~_task_expects_repeated_clicks(task)]
         ELSE [engine |-> [e EXCEPT !._pending_position_signature = NoSignature,
                                    !._last_click_cycle_signature = NoCycle,
                                    !._repeated_click_cycle_count = 0],
               fired |-> FALSE]


InitEngine ==
    /\ v_pc = "idle"
    /\ v_task = ""
    /\ v_function_calls = <<>>
    /\ call_index = 0
    /\ engine = NewEngine
    /\ retries = 0
    /\ fallback_for = ""
    /\ registered = <<>>
    /\ after_stop = {}
    /\ responses = 0
    /\ ended = ""
    /\ handled = <<>>

Running == {"thinking_status", "model", "retry_sleep", "call_status", "autoclick_status",
            "fallback_status", "tool_thread", "call_done", "loop_again",
            "complete_status", "guard_status"}

\* Where the run is and what it holds; the operators below give the values
\* after a stretch of code that holds no await.
Here ==
    [pc |-> v_pc, ended |-> ended, engine |-> engine, retries |-> retries,
     fallback_for |-> fallback_for, registered |-> registered,
     function_calls |-> v_function_calls, call_index |-> call_index, handled |-> handled]

Become(s) ==
    /\ v_pc' = s.pc
    /\ ended' = s.ended
    /\ engine' = s.engine
    /\ retries' = s.retries
    /\ fallback_for' = s.fallback_for
    /\ registered' = s.registered
    /\ v_function_calls' = s.function_calls
    /\ call_index' = s.call_index
    /\ handled' = s.handled

At(s, position) == [s EXCEPT !.pc = position]

\* run ends (line 120-121 hides the statuses on every way out)
End(s, how) == [s EXCEPT !.pc = "ended", !.ended = how]

\* _raise_if_stopped line 685-687, then what the caller goes on with
Unless_stopped(s, go_on) == IF stop_requested THEN End(s, "cancelled") ELSE go_on

\* What is done while stop_requested is set is remembered by its kind.
Work(kind) == after_stop' = IF stop_requested THEN after_stop \cup {kind} ELSE after_stop

\* run line 99 and _generate_step_response line 124-133: the flag is
\* looked at, the screen captured and the thinking status awaited
BeginStep(s) == Unless_stopped(s, At(s, "thinking_status"))

\* _handle_function_calls line 287-290 and run line 115-119 after a call that
\* returned False: the flag is looked at, then the status of the next call
\* (_handle_function_call line 298-305) or the sleep after the batch awaited
NextCall(s) ==
    Unless_stopped(s, IF s.call_index < Len(s.function_calls)
                      THEN [s EXCEPT !.call_index = @ + 1, !.pc = "call_status"]
                      ELSE At(s, "loop_again"))

\* VisionAgent.execute line 112-118 and the first step of run
VisionExecute ==
    /\ v_pc = "idle"
    /\ \E task \in VisionTasks : v_task' = task
    /\ stop_requested' = FALSE
    /\ Become([At(Here, "thinking_status") EXCEPT !.retries = 0, !.engine = NewEngine])
    /\ UNCHANGED <<otherThanVision, batch, responses, after_stop>>

\* tools.request_stop line 89-92, called by stop_all of app.py
RequestStop ==
    /\ v_pc \in Running
    /\ ~stop_requested
    /\ stop_requested' = TRUE
    /\ UNCHANGED <<otherThanVision, visionVars>>

\* _generate_step_response line 135-146: the model task is created and the
\* flag looked at before the first wait
ThinkingShown ==
    /\ v_pc = "thinking_status"
    /\ Become(Unless_stopped(Here, At(Here, "model")))
    /\ UNCHANGED <<otherThanVision, stop_requested, batch, v_task, responses, after_stop>>

\* _generate_step_response line 144-145, 150-152: a wait of 0.15 s ended with
\* the flag set; the model task is cancelled
ModelPollStopped ==
    /\ v_pc = "model"
    /\ stop_requested
    /\ Become(End(Here, "cancelled"))
    /\ UNCHANGED <<otherThanVision, stop_requested, batch, v_task, responses, after_stop>>

\* _handle_no_function_call line 217-236; retries was cleared when the
\* response came (line 148)
_handle_no_function_call(s) ==
    LET failures == s.engine.consecutive_failures + 1
        counted == [s EXCEPT !.engine.consecutive_failures = failures, !.retries = 0 + 1]
    IN  IF /\ failures >= max_failures_before_fallback
           /\ counted.engine.last_click_context # ""
        THEN [At(counted, "fallback_status") EXCEPT !.fallback_for = "no_call"]
        ELSE IF counted.retries < max_retries
             THEN At(counted, "loop_again")
             ELSE End(counted, "error")

\* _generate_step_response line 146-149, run line 100-115: the response has
\* come; its calls are normalised and the status of the first is awaited
ModelResponded ==
    /\ v_pc = "model"
    /\ responses < MaxResponses
    /\ responses' = responses + 1
    /\ \E calls \in EngineBatches :
         Become(Unless_stopped(Here,
                  IF calls = <<>>
                  THEN _handle_no_function_call(Here)
                  ELSE [Here EXCEPT
                          !.function_calls =
                              Take(calls, Len(_normalize_function_call_batch(Names(calls)))),
                          !.call_index = 1,
                          !.retries = 0,
                          !.pc = "call_status"]))
    /\ UNCHANGED <<otherThanVision, stop_requested, batch, v_task, after_stop>>

\* _generate_step_response line 153-162: the model call raised
\* InternalServerError
ModelFailed ==
    /\ v_pc = "model"
    /\ responses < MaxResponses
    /\ responses' = responses + 1
    /\ Become(IF retries + 1 < max_retries
              THEN [At(Here, "retry_sleep") EXCEPT !.retries = retries + 1]
              ELSE [End(Here, "error") EXCEPT !.retries = retries + 1])
    /\ UNCHANGED <<otherThanVision, stop_requested, batch, v_task, after_stop>>

\* _generate_step_response line 159-161 after its sleep, and run line 98-99
\* after the sleep that follows a batch or the status of a retry
LoopAgain ==
    /\ v_pc \in {"retry_sleep", "loop_again"}
    /\ Become(BeginStep(Here))
    /\ UNCHANGED <<otherThanVision, stop_requested, batch, v_task, responses, after_stop>>

IsClick(call) == call.name \in CLICK_TOOL_TO_TYPE

IsPositioning(call) == call.name \in POSITIONING_TOOLS

CurrentCall == v_function_calls[call_index]

\* _handle_function_call line 307-313 that counts the calls, whatever they are
Mut_CountRepeat(e, signature) ==
    [e EXCEPT !.last_action_signature = signature, !.repeated_action_count = @ + 1]

\* One more call in the history, with what was done for it; the history keeps
\* its last entries, as many as the larger threshold.
Noted(s, signature, how) ==
    LET h == Append(s.handled, [sig |-> signature, how |-> how])
    IN  [s EXCEPT !.handled = SubSeq(h, Len(h) - Min(Len(h), max_failures_before_fallback) + 1,
                                     Len(h))]

\* _handle_function_call line 307-313
CountRepeat(e, signature) ==
    IF signature = e.last_action_signature
    THEN [e EXCEPT !.repeated_action_count = @ + 1]
    ELSE [e EXCEPT !.last_action_signature = signature, !.repeated_action_count = 1]

\* _handle_function_call line 357-389: the tool has returned
ToolReturned(s, call, signature) ==
    LET target == _resolve_target_description(v_task, call, s.engine.last_target_description)
        e == [s.engine EXCEPT
                !.consecutive_failures = 0,
                !.last_target_description =
                    IF IsPositioning(call) \/ IsClick(call) THEN target ELSE @,
                !.last_click_context = IF IsClick(call) THEN target ELSE @]
        reg == _register_action_and_detect_click_loop(e, v_task, call.name, signature)
        noted == [s EXCEPT !.engine = reg.engine,
                           !.registered = Append(@, [name |-> call.name, sig |-> signature])]
    IN  IF call.name = "task_is_complete" THEN At([s EXCEPT !.engine = e], "complete_status")
        ELSE IF reg.fired THEN At(noted, "guard_status")
             ELSE Unless_stopped(noted, At(noted, "call_done"))

\* _handle_function_call line 390-410: the tool has raised
ToolRaised(s, call) ==
    LET failures == s.engine.consecutive_failures + 1
        counted == [s EXCEPT !.engine.consecutive_failures = failures]
    IN  IF IsClick(call) /\ failures >= max_failures_before_fallback
        THEN Unless_stopped(counted,
                            [At(counted, "fallback_status") EXCEPT !.fallback_for = "exception"])
        ELSE IF counted.retries < max_retries
             THEN [At(counted, "call_done") EXCEPT !.retries = @ + 1]
             ELSE End(counted, "error")

ToolDone(s, call, signature, returned) ==
    IF returned THEN ToolReturned(s, call, signature) ELSE ToolRaised(s, call)

\* _handle_function_call line 306-356 after the status of the call was shown:
\* the repeat count, then the fallback, the automatic click or the tool
CallStatusDone ==
    /\ v_pc = "call_status"
    /\ LET call == CurrentCall
           signature == _action_signature(call, engine.last_target_description)
           counted == [Here EXCEPT !.engine = CountRepeat(engine, signature)]
           has_explicit_click == \E i \in 1..Len(v_function_calls) : IsClick(v_function_calls[i])
       IN  IF /\ IsClick(call)
              /\ counted.engine.repeated_action_count >= max_failures_before_fallback
           THEN Become(Unless_stopped(counted,
                         [At(Noted(counted, signature, "fallback"), "fallback_status")
                            EXCEPT !.fallback_for = "repeat"]))
           ELSE IF /\ ~has_explicit_click
                   /\ IsPositioning(call)
                   /\ counted.engine.repeated_action_count
                         >= AUTO_CLICK_AFTER_REPEAT_POSITIONING_THRESHOLD
                THEN Become(At(Noted(counted, signature, "autoclick"), "autoclick_status"))
                ELSE IF IsPositioning(call)
                     THEN Become(Unless_stopped(counted,
                                   At(Noted(counted, signature, "tool"), "tool_thread")))
                     ELSE \E returned \in BOOLEAN :
                            Become(Unless_stopped(counted,
                                     ToolDone(Noted(counted, signature, "tool"), call,
                                              signature, returned)))
    /\ UNCHANGED <<otherThanVision, stop_requested, batch, v_task, responses, after_stop>>

\* _handle_function_call line 331-345 after "Position repeated" was shown: the
\* click tool is executed, then the settle delay begun
AutoclickStatusDone ==
    /\ v_pc = "autoclick_status"
    /\ Work("tool")
    /\ LET target == _resolve_target_description(v_task, CurrentCall,
                                                 engine.last_target_description)
           clicked == [Here EXCEPT !.engine.last_target_description = target,
                                   !.engine.last_click_context = target,
                                   !.engine.last_action_signature = NoSignature,
                                   !.engine.repeated_action_count = 0,
                                   !.engine.consecutive_failures = 0]
       IN  \/ Become(Unless_stopped(clicked, At(clicked, "call_done")))
           \/ Become(End(Here, "error"))
    /\ UNCHANGED <<otherThanVision, stop_requested, batch, v_task, responses>>

\* _handle_function_call line 354: the positioning tool, run in a worker
\* thread, has returned or raised
ToolThreadDone ==
    /\ v_pc = "tool_thread"
    /\ \E returned \in BOOLEAN :
         Become(ToolDone(Here, CurrentCall,
                         _action_signature(CurrentCall, engine.last_target_description),
                         returned))
    /\ UNCHANGED <<otherThanVision, stop_requested, batch, v_task, responses, after_stop>>

\* _attempt_fallback line 577-584 after its status was shown, and what its
\* caller does with the answer
FallbackStatusDone ==
    /\ v_pc = "fallback_status"
    /\ \E success \in BOOLEAN, returned \in BOOLEAN :
         LET signature == _action_signature(CurrentCall, engine.last_target_description)
             located == [Here EXCEPT !.engine.consecutive_failures = 0]
             reset == Noted([located EXCEPT !.engine.repeated_action_count = 0],
                            signature, "located")
         IN  Become(Unless_stopped(Here,
               CASE fallback_for = "no_call" ->
                      IF success THEN [At(located, "loop_again") EXCEPT !.retries = 0]
                      ELSE IF retries < max_retries THEN At(Here, "loop_again")
                           ELSE End(Here, "error")
                 [] fallback_for = "repeat" ->
                      IF success THEN At(reset, "call_done")
                      ELSE ToolDone(Here, CurrentCall, signature, returned)
                 [] OTHER ->
                      IF success THEN At(reset, "call_done")
                      ELSE IF retries < max_retries
                           THEN [At(Here, "call_done") EXCEPT !.retries = @ + 1]
                           ELSE End(Here, "error")))
    /\ UNCHANGED <<otherThanVision, stop_requested, batch, v_task, responses, after_stop>>

\* _handle_function_call line 374-376 and 380-386 after "Task complete" or
\* "Task appears complete" was shown: run returns
FinalStatusDone ==
    /\ v_pc \in {"complete_status", "guard_status"}
    /\ Become(End(Here, IF v_pc = "complete_status" THEN "complete" ELSE "loop_guard"))
    /\ UNCHANGED <<otherThanVision, stop_requested, batch, v_task, responses, after_stop>>

\* the settle delay, or the status of a retry or of the fallback, is over
CallDone ==
    /\ v_pc = "call_done"
    /\ Become(NextCall(Here))
    /\ UNCHANGED <<otherThanVision, stop_requested, batch, v_task, responses, after_stop>>

NextVision ==
    \/ VisionExecute
    \/ RequestStop
    \/ ThinkingShown
    \/ ModelPollStopped
    \/ ModelResponded
    \/ ModelFailed
    \/ LoopAgain
    \/ CallStatusDone
    \/ AutoclickStatusDone
    \/ ToolThreadDone
    \/ FallbackStatusDone
    \/ FinalStatusDone
    \/ CallDone

\* C33 as stated: when the model has returned no function call, or the tool
\* chosen has failed, max_retries steps in a row, the run does not go on to
\* another step: it has ended in failure.
C33_FailuresInARowEndRun ==
    engine.consecutive_failures >= max_retries =>
        /\ v_pc \notin {"loop_again", "thinking_status", "model"}
        /\ v_pc = "ended" => ended \in {"error", "cancelled"}

RECURSIVE InARow(_, _)
\* How many of the last calls of the history bore this signature one after the
\* other, since the last automatic click or successful fallback.
InARow(h, signature) ==
    IF h = <<>> THEN 0
    ELSE LET last == h[Len(h)]
             before == SubSeq(h, 1, Len(h) - 1)
         IN  IF last.how \in {"autoclick", "located"} \/ last.sig # signature THEN 0
             ELSE 1 + InARow(before, signature)

\* C34: when a call is taken up and no stop is requested, the fallback locator
\* is invoked exactly when the call is a click whose signature has now occurred
\* 3 or more times in a row, and a click is synthesized in place of the call
\* exactly when it is a positioning call whose signature has now occurred 2 or
\* more times in a row in a batch without click; a successful fallback is not
\* followed by the click, and the synthesized click resets the repeat counter.
C34_RepeatedActions ==
    [][/\ (v_pc = "call_status" /\ v_pc' # "call_status" /\ ~stop_requested) =>
            LET signature == _action_signature(CurrentCall, engine.last_target_description)
                times == InARow(handled, signature) + 1
                batch_has_click ==
                    \E i \in 1..Len(v_function_calls) : IsClick(v_function_calls[i])
                click_repeated ==
                    IsClick(CurrentCall) /\ times >= max_failures_before_fallback
                position_repeated ==
                    /\ IsPositioning(CurrentCall)
                    /\ ~batch_has_click
                    /\ times >= AUTO_CLICK_AFTER_REPEAT_POSITIONING_THRESHOLD
            IN  /\ click_repeated <=> (v_pc' = "fallback_status" /\ fallback_for' = "repeat")
                /\ position_repeated <=> v_pc' = "autoclick_status"
       /\ (v_pc = "autoclick_status" /\ v_pc' # "autoclick_status") =>
            /\ registered' = registered
            /\ \/ ended' = "error"
               \/ engine'.repeated_action_count = 0
       /\ (/\ v_pc = "fallback_status"
           /\ fallback_for = "repeat"
           /\ handled' # handled
           /\ handled'[Len(handled')].how = "located") =>
            /\ v_pc' = "call_done"
            /\ registered' = registered
            /\ engine'.repeated_action_count = 0]_vars

C34_ThirdClickFallsBack ==
    /\ v_pc = "fallback_status"
    /\ fallback_for = "repeat"
    /\ Len(handled) = 3
    /\ \A i \in 1..3 : IsClick([name |-> handled[i].sig.name])

\* C27 as stated: once the stop flag is set during a run, no capture, model
\* call or tool execution is started, and the run ends by the cancellation.
C27_StopStartsNoWork ==
    /\ after_stop = {}
    /\ (v_pc = "ended" /\ stop_requested) => ended = "cancelled"

\* The actions registered since the last one that is neither a positioning
\* nor a click.
SinceOther(h) ==
    LET others == {i \in 1..Len(h) : h[i].name \notin POSITIONING_TOOLS \cup CLICK_TOOL_TO_TYPE}
        from == IF others = {} THEN 1
                ELSE (CHOOSE i \in others : \A j \in others : j <= i) + 1
    IN  SubSeq(h, from, Len(h))

Positions(h, i) == {j \in 1..(i - 1) : h[j].name \in POSITIONING_TOOLS}

\* The clicks of h that follow a positioning.
CycleClicks(h) ==
    {i \in 1..Len(h) : h[i].name \in CLICK_TOOL_TO_TYPE /\ Positions(h, i) # {}}

\* The cycle a click closes: the last position before it and the click.
CycleAt(h, i) ==
    LET p == CHOOSE j \in Positions(h, i) : \A k \in Positions(h, i) : k <= j
    IN  <<h[p].sig, h[i].sig>>

\* How many times in a row the last cycle of the history has occurred.
CyclesInARow(history) ==
    LET h == SinceOther(history)
        K == CycleClicks(h)
        last == CHOOSE i \in K : \A k \in K : k <= i
    IN  IF K = {} THEN 0
        ELSE Cardinality({i \in K : \A k \in K : k >= i => CycleAt(h, k) = CycleAt(h, last)})

GuardFired == v_pc = "guard_status" \/ ended = "loop_guard"

\* C29: the click-loop guard has ended the run exactly when the last action
\* registered is a click that closes the same (position, click) cycle for the
\* fourth time in a row and the task does not ask for repeated clicks; an
\* action that is neither positioning nor click restarts the count.
C29_GuardFiresAtFourthCycle ==
    /\ engine._repeated_click_cycle_count = CyclesInARow(registered)
    /\ GuardFired <=>
         /\ registered # <<>>
         /\ registered[Len(registered)].name \in CLICK_TOOL_TO_TYPE
         /\ CyclesInARow(registered) = CLICK_CYCLE_LOOP_STOP_THRESHOLD
         /\ ~_task_expects_repeated_clicks(v_task)
    /\ _task_expects_repeated_clicks(v_task) => ~GuardFired
    /\ (registered # <<>> /\ registered[Len(registered)].name = "type_string")
          => CyclesInARow(registered) = 0

C29_FourthCycleEndedRun ==
    /\ ended = "loop_guard"
    /\ Len(registered) = 8
    /\ CyclesInARow(registered) = 4


(***************************************************************************)
(* BrowserAgent of agents/browser/agent.py: the shared backends.  execute  *)
(* is followed one step per await; a session or a driver is named by the   *)
(* number of the call that created it.  The fields _shared_playwright,     *)
(* _shared_playwright_browser, _shared_playwright_context and              *)
(* _shared_playwright_page are set and cleared together (line 104-108 and  *)
(* 166-169) and are held as one.  live holds what runs outside the         *)
(* program: browser sessions and playwright drivers with their browsers.   *)
(* stop has no caller in the program and is left out.                      *)
(***************************************************************************)
MaxBrowserCalls == 3

None == 0

\* how the browser_use package behaves in this process: it works, it cannot
\* be imported (line 115, 232-233), or building its Agent raises one of the
\* errors of _should_fallback_to_playwright (line 237-247)
Bootstraps == {"ok", "import_error", "construct_error"}

BrowserAwaits == {"closing_browser_use", "playwright_start", "playwright_launch",
                  "playwright_page", "playwright_actions", "agent_run"}

InitBrowser ==
    /\ _shared_backend = ""
    /\ _shared_browser_use_session = None
    /\ _shared_playwright_page = None
    /\ live = {}
    /\ b_pc = "idle"
    /\ b_calls = 0
    /\ bootstrap = "unset"
    /\ b_entry = ""
    /\ b_paths = {}

Resource(kind, id) == [kind |-> kind, id |-> id]

\* execute line 192-200 where a browser_use session that cannot run its
\* agent falls back to the direct driver
Mut_ReusedBackend(backend, works, page_is_closed) ==
    IF backend = "browser_use"
    THEN IF works = "ok" THEN "agent_run" ELSE "closing_browser_use"
    ELSE IF page_is_closed THEN "playwright_start" ELSE "playwright_actions"

\* execute line 192-200: where the call awaits first when the backend is
\* chosen already.  With browser_use the session is reused (line 121-127) and
\* an error of the agent leaves execute; with playwright the page is reused
\* unless it was closed (line 149-154)
ReusedBackend(backend, works, page_is_closed) ==
    IF backend = "browser_use"
    THEN IF works = "ok" THEN "agent_run" ELSE "idle"
    ELSE IF page_is_closed THEN "playwright_start" ELSE "playwright_actions"

\* execute line 175-228 up to its first await
BrowserExecute ==
    /\ b_pc = "idle"
    /\ b_calls < MaxBrowserCalls
    /\ b_calls' = b_calls + 1
    /\ \E works \in Bootstraps, page_is_closed \in BOOLEAN :
         /\ bootstrap' = IF bootstrap = "unset" THEN works ELSE bootstrap
         /\ CASE _shared_backend # "" ->
                   /\ b_pc' = ReusedBackend(_shared_backend, bootstrap', page_is_closed)
                   /\ UNCHANGED <<_shared_backend, _shared_browser_use_session,
                                  _shared_playwright_page, live>>
              [] OTHER ->
                   \* line 204-217
                   IF bootstrap' = "import_error"
                   THEN /\ b_pc' = "playwright_start"
                        /\ UNCHANGED <<_shared_backend, _shared_browser_use_session,
                                       _shared_playwright_page, live>>
                   ELSE \* line 129-140: the session is created
                        /\ _shared_backend' = "browser_use"
                        /\ _shared_browser_use_session' = b_calls'
                        /\ live' = live \cup {Resource("browser_use", b_calls')}
                        /\ b_pc' = IF bootstrap' = "ok" THEN "agent_run"
                                   ELSE "closing_browser_use"
                        /\ UNCHANGED _shared_playwright_page
    /\ b_entry' = _shared_backend
    /\ b_paths' = (IF _shared_backend = "playwright" THEN {} ELSE {"browser_use"})
                     \cup (IF b_pc' \in {"closing_browser_use", "playwright_start",
                                         "playwright_actions"}
                           THEN {"playwright"} ELSE {})
    /\ UNCHANGED otherThanBrowser

\* _close_shared_resources line 63-76, 111 after session.kill, called by
\* _get_or_create_playwright_page line 146-147, which goes on to line 156-160
BrowserUseKilled ==
    /\ b_pc = "closing_browser_use"
    /\ live' = live \ {Resource("browser_use", _shared_browser_use_session)}
    /\ _shared_browser_use_session' = None
    /\ _shared_backend' = ""
    /\ b_pc' = "playwright_start"
    /\ UNCHANGED <<otherThanBrowser, _shared_playwright_page, b_calls, bootstrap, b_entry, b_paths>>

\* _get_or_create_playwright_page line 160: the driver is started
PlaywrightStarted ==
    /\ b_pc = "playwright_start"
    /\ live' = live \cup {Resource("playwright", b_calls)}
    /\ b_pc' = "playwright_launch"
    /\ UNCHANGED <<otherThanBrowser, _shared_backend, _shared_browser_use_session,
                   _shared_playwright_page, b_calls, bootstrap, b_entry, b_paths>>

\* _launch_playwright_browser line 355-401: a browser is launched, or every
\* launch has failed and RuntimeError leaves execute
PlaywrightLaunched ==
    /\ b_pc = "playwright_launch"
    /\ \E launched \in BOOLEAN : b_pc' = IF launched THEN "playwright_page" ELSE "idle"
    /\ UNCHANGED <<otherThanBrowser, _shared_backend, _shared_browser_use_session,
                   _shared_playwright_page, live, b_calls, bootstrap, b_entry, b_paths>>

\* _get_or_create_playwright_page line 162-173: context and page are made and
\* the shared fields set, or new_context or new_page raised
PlaywrightPageCreated ==
    /\ b_pc = "playwright_page"
    /\ \/ /\ _shared_backend' = "playwright"
          /\ _shared_playwright_page' = b_calls
          /\ b_pc' = "playwright_actions"
       \/ /\ b_pc' = "idle"
          /\ UNCHANGED <<_shared_backend, _shared_playwright_page>>
    /\ UNCHANGED <<otherThanBrowser, _shared_browser_use_session, live, b_calls, bootstrap, b_entry, b_paths>>

\* _execute_with_playwright line 272-338 and _execute_with_browser_use line
\* 249-262: the task is done or has failed; close_when_done is False (line 188)
BrowserTaskDone ==
    /\ b_pc \in {"playwright_actions", "agent_run"}
    /\ b_pc' = "idle"
    /\ UNCHANGED <<otherThanBrowser, _shared_backend, _shared_browser_use_session,
                   _shared_playwright_page, live, b_calls, bootstrap, b_entry, b_paths>>

\* stop_all of app.py line 50-56 cancels the task that awaits in execute;
\* CancelledError passes every except Exception of the class
BrowserCancel ==
    /\ b_pc \in BrowserAwaits
    /\ b_pc' = "idle"
    /\ UNCHANGED <<otherThanBrowser, _shared_backend, _shared_browser_use_session,
                   _shared_playwright_page, live, b_calls, bootstrap, b_entry, b_paths>>

NextBrowser ==
    \/ BrowserExecute
    \/ BrowserUseKilled
    \/ PlaywrightStarted
    \/ PlaywrightLaunched
    \/ PlaywrightPageCreated
    \/ BrowserTaskDone
    \/ BrowserCancel

Kinds(resources) == {r.kind : r \in resources}

C30_OneBackendActive ==
    /\ _shared_playwright_page # None => "browser_use" \notin Kinds(live)
    /\ Cardinality(Kinds(live)) <= 1
    /\ b_pc = "idle" => Kinds(live) \subseteq {_shared_backend}

(***************************************************************************)
(* BrowserAgent._execute_with_playwright of agents/browser/agent.py: which *)
(* way the direct driver serves a task.  A page is held by what its title  *)
(* and URL show: "scopegrade", "localhost" or "other".                     *)
(***************************************************************************)
MaxPages == 2

BrowserTasks ==
    {"On the currently open ScopeGrade page, upload ECE_131A_HW5.zip",
     "Click the submit button on the current tab",
     "Open the dashboard of the app running on localhost",
     "Go to https://slac.stanford.edu please",
     "Open a new tab",
     "Open a new tab on the current tab's site",
     "Find the weather in Paris",
     "Open the ScopeGrade grader"}

\* _is_open_new_tab_task line 540-549
_is_open_new_tab_task(task) ==
    task \in {"Open a new tab", "Open a new tab on the current tab's site"}

NoUrl == ""

\* _extract_direct_url line 453-485
_extract_direct_url(task) ==
    CASE task = "Open the dashboard of the app running on localhost" -> "http://localhost"
      [] task = "Go to https://slac.stanford.edu please" -> "https://slac.stanford.edu"
      [] OTHER -> NoUrl

\* _is_current_tab_context_task line 552-562
_is_current_tab_context_task(task) ==
    task \in {"On the currently open ScopeGrade page, upload ECE_131A_HW5.zip",
              "Click the submit button on the current tab",
              "Open a new tab on the current tab's site"}

MentionsScopegrade(task) ==
    task \in {"On the currently open ScopeGrade page, upload ECE_131A_HW5.zip",
              "Open the ScopeGrade grader"}

MentionsLocalhost(task) == task = "Open the dashboard of the app running on localhost"

\* _should_reuse_existing_page line 565-573
_should_reuse_existing_page(task) ==
    _is_current_tab_context_task(task) \/ MentionsScopegrade(task)

\* _must_avoid_search line 613-617
_must_avoid_search(task) ==
    \/ _should_reuse_existing_page(task)
    \/ MentionsLocalhost(task) \/ MentionsScopegrade(task)

PageKinds == {"scopegrade", "localhost", "other"}

RECURSIVE SeqsUpTo(_, _)
SeqsUpTo(S, n) ==
    IF n = 0 THEN {<<>>}
    ELSE SeqsUpTo(S, n - 1) \cup {Append(s, x) : s \in SeqsUpTo(S, n - 1), x \in S}

NoPage == 0

FirstOf(pages, kinds) ==
    LET found == {i \in 1..Len(pages) : pages[i] \in kinds}
    IN  IF found = {} THEN NoPage ELSE CHOOSE i \in found : \A j \in found : i <= j

\* _select_relevant_existing_page line 619-647: the place of the page chosen
\* among the pages of the context, NoPage when none is
_select_relevant_existing_page(task, pages) ==
    LET by_scopegrade == FirstOf(pages, {"scopegrade", "localhost"})
        by_localhost == FirstOf(pages, {"localhost"})
    IN  IF pages = <<>> THEN NoPage
        ELSE IF MentionsScopegrade(task) /\ by_scopegrade # NoPage THEN by_scopegrade
             ELSE IF MentionsLocalhost(task) THEN by_localhost
                  ELSE NoPage

NoDirectCall == [task |-> "", pages |-> <<>>, goto_ok |-> TRUE]

NoDirectResult == [action_mode |-> "", used_search |-> FALSE, searched |-> FALSE,
                   page |-> NoPage, raised |-> FALSE]

InitDirect ==
    /\ pw_call = NoDirectCall
    /\ pw_result = NoDirectResult

\* _execute_with_playwright line 264-338, called with the URL that execute
\* took from the task (line 178, 199, 213): the mode the task was served in,
\* whether the DuckDuckGo page was asked for, and the page acted on
_execute_with_playwright(task, pages, goto_ok) ==
    LET direct_url == _extract_direct_url(task)
        avoid_search == _must_avoid_search(task)
        current == Len(pages)
        relevant == _select_relevant_existing_page(task, pages)
        Served(mode, page) ==
            [action_mode |-> mode, used_search |-> FALSE, searched |-> FALSE,
             page |-> page, raised |-> FALSE]
        Search ==
            IF goto_ok
            THEN [action_mode |-> "search_fallback", used_search |-> TRUE, searched |-> TRUE,
                  page |-> current, raised |-> FALSE]
            ELSE [action_mode |-> "", used_search |-> TRUE, searched |-> TRUE,
                  page |-> current, raised |-> TRUE]
    IN  IF _is_open_new_tab_task(task) THEN Served("new_tab", current + 1)
        ELSE IF direct_url # NoUrl
             THEN IF goto_ok THEN Served("direct_navigation", current)
                  ELSE [Served("", current) EXCEPT !.raised = TRUE]
             ELSE IF avoid_search
                  THEN IF relevant # NoPage THEN Served("current_tab_context", relevant)
                       ELSE Search
                  ELSE Search

\* the pages of the context hold the shared page (line 162-163, 169)
ExecuteWithPlaywright ==
    /\ pw_call = NoDirectCall
    /\ \E task \in BrowserTasks, pages \in SeqsUpTo(PageKinds, MaxPages) \ {<<>>},
          goto_ok \in BOOLEAN :
         /\ pw_call' = [task |-> task, pages |-> pages, goto_ok |-> goto_ok]
         /\ pw_result' = _execute_with_playwright(task, pages, goto_ok)
    /\ UNCHANGED otherThanDirect

NextDirect == ExecuteWithPlaywright

\* C32 as stated: a task that must avoid search is never searched for on
\* DuckDuckGo; it is served from an existing page as current-tab context.
C32_AvoidSearchNeverSearches ==
    (pw_call # NoDirectCall /\ _must_avoid_search(pw_call.task)) =>
        /\ ~pw_result.searched
        /\ pw_result.action_mode = "current_tab_context"

(***************************************************************************)
(* go_to_element of agents/cua_vision/tools.py: whether the position is    *)
(* refined by crop-and-search.  The sides are those of the box in whole    *)
(* logical pixels, as _bbox_logical_dimensions gives them (line 337-352).  *)
(***************************************************************************)
AUTO_FORCE_ZOOM_MIN_SIDE_LOGICAL_PX == 96

AUTO_FORCE_ZOOM_MAX_AREA_LOGICAL_PX2 == 14000

BoxSides == {0, 20, 95, 96, 97, 100, 140, 145, 146, 150, 700, 1000}

\* _should_force_zoom line 354-362
_should_force_zoom(width_px, height_px) ==
    LET w == Max(width_px, 0)
        h == Max(height_px, 0)
        area == w * h
    IN  \/ (w <= AUTO_FORCE_ZOOM_MIN_SIDE_LOGICAL_PX /\ h <= AUTO_FORCE_ZOOM_MIN_SIDE_LOGICAL_PX)
        \/ area <= AUTO_FORCE_ZOOM_MAX_AREA_LOGICAL_PX2

NoZoom == [bbox_w |-> 0, bbox_h |-> 0, called |-> FALSE, auto_zoom |-> FALSE, moved_to |-> ""]

InitZoom == zoom = NoZoom

\* go_to_element line 457-522: the cursor goes to what crop_and_search_click
\* found when auto_zoom is set, to the centre of the box otherwise
go_to_element ==
    /\ ~zoom.called
    /\ \E bbox_w \in BoxSides, bbox_h \in BoxSides :
         LET auto_zoom == _should_force_zoom(bbox_w, bbox_h)
         IN  zoom' = [bbox_w |-> bbox_w, bbox_h |-> bbox_h, called |-> TRUE,
                      auto_zoom |-> auto_zoom,
                      moved_to |-> IF auto_zoom THEN "refined" ELSE "center"]
    /\ UNCHANGED otherThanZoom

NextZoom == go_to_element

\* C35 as stated: the position is refined exactly when either side of the box
\* is at most 96 logical px or its area is at most 14000 px squared.
C35_EitherSideSmall ==
    zoom.called =>
        (zoom.moved_to = "refined" <=>
            \/ zoom.bbox_w <= 96
            \/ zoom.bbox_h <= 96
            \/ zoom.bbox_w * zoom.bbox_h <= 14000)

(***************************************************************************)
(* VisualizationServer._broadcast of ui/server.py, one step per awaited    *)
(* send.  A send to a peer whose connection is closed raises               *)
(* ConnectionClosed; any other send delivers the message.                  *)
(***************************************************************************)
MaxBroadcasts == 2

Peers == {1, 2, 3}

NoBroadcast == [pc |-> "idle", sender |-> 0, snapshot |-> {}, pending |-> {}, stale |-> {},
                raised |-> FALSE]

InitBroadcast ==
    /\ bc_clients = {}
    /\ connected = {}
    /\ closed = {}
    /\ bc = NoBroadcast
    /\ broadcasts = 0
    /\ attempted = {}
    /\ failed = {}

\* _handle_client line 244-245: a renderer connects and is added to the set
PeerConnects ==
    /\ \E w \in Peers \ connected :
         /\ connected' = connected \cup {w}
         /\ bc_clients' = bc_clients \cup {w}
    /\ UNCHANGED <<otherThanBroadcast, closed, bc, broadcasts, attempted, failed>>

\* the connection of a peer closes; its handler has not noticed yet
PeerCloses ==
    /\ \E w \in connected \ closed : closed' = closed \cup {w}
    /\ UNCHANGED <<otherThanBroadcast, bc_clients, connected, bc, broadcasts, attempted, failed>>

\* _handle_client line 398-402: the handler of a closed peer, reading
\* messages, meets ConnectionClosed and discards the peer
HandlerEnds ==
    /\ \E w \in (bc_clients \cap closed) \ {bc.sender} :
         bc_clients' = bc_clients \ {w}
    /\ UNCHANGED <<otherThanBroadcast, connected, closed, bc, broadcasts, attempted, failed>>

\* _broadcast line 411-413 that lets ConnectionClosed leave the loop
Mut_AfterSend(b, client, delivered) ==
    IF delivered THEN [b EXCEPT !.pending = @ \ {client}]
    ELSE [b EXCEPT !.pending = {}, !.raised = TRUE]

\* _broadcast line 409-413: one turn of the loop
AfterSend(b, client, delivered) ==
    IF delivered THEN [b EXCEPT !.pending = @ \ {client}]
    ELSE [b EXCEPT !.pending = @ \ {client}, !.stale = @ \cup {client}]

\* _handle_client line 262-341 and _broadcast line 404-410: the handler of a
\* peer has read a command and the broadcast takes list(self.clients)
BroadcastBegins ==
    /\ bc.pc = "idle"
    /\ broadcasts < MaxBroadcasts
    /\ \E w \in bc_clients \ closed :
         bc' = [NoBroadcast EXCEPT !.pc = "sending", !.sender = w,
                                   !.snapshot = bc_clients, !.pending = bc_clients]
    /\ broadcasts' = broadcasts + 1
    /\ attempted' = {}
    /\ failed' = {}
    /\ UNCHANGED <<otherThanBroadcast, bc_clients, connected, closed>>

\* _broadcast line 409-416: an awaited send returns or raises; after the last
\* one the stale peers are discarded
SendReturns ==
    /\ bc.pc = "sending"
    /\ \E client \in bc.pending :
         LET delivered == client \notin closed
             after == AfterSend(bc, client, delivered)
         IN  /\ attempted' = attempted \cup {client}
             /\ failed' = IF delivered THEN failed ELSE failed \cup {client}
             /\ IF after.pending = {}
                THEN /\ bc' = [after EXCEPT !.pc = "returned"]
                     /\ bc_clients' = IF after.raised THEN bc_clients
                                      ELSE bc_clients \ after.stale
                ELSE /\ bc' = after
                     /\ UNCHANGED bc_clients
    /\ UNCHANGED <<otherThanBroadcast, connected, closed, broadcasts>>

\* _handle_client line 254: the handler reads on
BroadcastReturned ==
    /\ bc.pc = "returned"
    /\ bc' = [bc EXCEPT !.pc = "idle", !.sender = 0]
    /\ UNCHANGED <<otherThanBroadcast, bc_clients, connected, closed, broadcasts, attempted,
                   failed>>

NextBroadcast ==
    \/ PeerConnects
    \/ PeerCloses
    \/ HandlerEnds
    \/ BroadcastBegins
    \/ SendReturns
    \/ BroadcastReturned

\* C36: when a broadcast has returned, every peer that was connected when it
\* began has been sent the payload, the peers whose send failed are no longer
\* in the client set, and nothing was raised into the handler that called it.
C36_BroadcastPrunesAndDelivers ==
    /\ ~bc.raised
    /\ bc.pc = "returned" =>
         /\ attempted = bc.snapshot
         /\ bc_clients \cap failed = {}
         /\ bc.snapshot \ failed \subseteq bc_clients \cup closed

C36_FailedPeerBetweenTwo ==
    /\ bc.pc = "returned"
    /\ Cardinality(failed) = 1
    /\ Cardinality(attempted \ failed) = 2

(***************************************************************************)
(* Replay of the registry to a client that connects (ui/server.py)         *)
(***************************************************************************)
\* The entities a renderer shows: those drawn and not removed or cleared
\* since, less the texts hidden since they were drawn.
Visible == (Keys(boxes) \cup Keys(texts)) \ hidden

\* C39: every entity that the replay sends to a connecting client is
\* visible when it is sent: it was not removed, cleared or hidden since it
\* was last drawn.
C39_ReplaysOnlyVisible ==
    [][\A w \in Websockets :
          clients'[w].replayed \ clients[w].replayed \subseteq Visible]_vars

(***************************************************************************)
(* The single-session guard after a session has ended (app.py)             *)
(***************************************************************************)
\* The text of the input just handled repeats the one before it within the
\* duplicate window.
RepeatsLastInput ==
    /\ last_input'.text = last_overlay_text
    /\ now - last_overlay_ts < DuplicateInputWindow

\* C40 as stated: when every session task has ended, any input that does not
\* repeat the last text within the window starts a new session task.
C40_EveryInputStartsSession ==
    [][(/\ inputs_handled' = inputs_handled + 1
        /\ Unfinished = {}
        /\ ~RepeatsLastInput)
          => /\ last_input'.outcome = "started"
             /\ Len(tasks') = Len(tasks) + 1]_vars

\* C40: when every session task has ended (by a return, an exception or a
\* cancellation, whether or not it ever ran), a step of handle_overlay_input
\* whose text is not empty once stripped and does not repeat the last one
\* within the window starts a new session task.
C40_GuardNeverWedges ==
    [][(/\ inputs_handled' = inputs_handled + 1
        /\ Unfinished = {}
        /\ last_input'.text # ""
        /\ ~RepeatsLastInput)
          => /\ last_input'.outcome = "started"
             /\ Len(tasks') = Len(tasks) + 1
             /\ current_task' = Len(tasks')
             /\ tasks'[current_task'].st = "pending"]_vars

\* A session was cancelled by stop_all and has ended; the input after it
\* started a second session.
C40_StartedAfterCancelledSession ==
    /\ inputs_handled = 2
    /\ last_input.outcome = "started"
    /\ Len(tasks) = 2
    /\ tasks[1].cancel /\ tasks[1].st = "done"
    /\ current_task = 2
    /\ stops = 1

(***************************************************************************)
(* Cancellation of a CLI run (agents/cua_cli/agent.py, app.py stop_all)    *)
(***************************************************************************)
\* C38: once the cancellation of the session has left execute, the
\* subprocess that _run_cli started for the run is no longer running.
C38_CancelTerminatesSubprocess ==
    cli_pc = "cancelled" => subprocess.proc # "running"

(***************************************************************************)
(* Liveness of the draw queue (agents/clovis/tools.py)                     *)
(***************************************************************************)
\* The event loop resumes a consumer whose await is over, and time passes;
\* nothing obliges a session to call queue_action again.
ConsumerFairness ==
    /\ WF_vars(Tick)
    /\ WF_vars(ConsumerWakes)
    /\ WF_vars(ConsumerDirectWaitOver)
    /\ WF_vars(ConsumerHideReturns)
    /\ WF_vars(ConsumerDelayOver)
    /\ WF_vars(ConsumerExecReturns)
    /\ WF_vars(CancelledConsumerResumes)

\* C37: an action that is still queued when the consumer task has ended on
\* an exception of the action before it is started later, unless stop_all
\* removes it first.
C37_RaisingActionLeavesNoneBehind ==
    \A id \in 1..MaxActions :
        [](_ACTION_TASK.pc = "done" /\ id \in QueuedIds
              => <>(id \in executed \cup killed))

(***************************************************************************)
(* Specifications                                                          *)
(***************************************************************************)
Init == InitRouter /\ InitApp /\ InitServer /\ InitLayout /\ InitRegistry /\ InitCoords
           /\ InitTheme /\ InitCli /\ InitVision /\ InitEngine /\ InitBrowser /\ InitDirect /\ InitZoom /\ InitBroadcast

Spec == Init /\ [][Next]_vars

SpecApp == Init /\ [][NextApp]_vars

SpecAppLive == Init /\ [][NextApp]_vars /\ ConsumerFairness

SpecServer == Init /\ [][NextServer]_vars

SpecLayout == Init /\ [][NextLayout]_vars

SpecRegistry == Init /\ [][NextRegistry]_vars

SpecCoords == Init /\ [][NextCoords]_vars

SpecTheme == Init /\ [][NextTheme]_vars

SpecCli == Init /\ [][NextCli]_vars

SpecBatch == Init /\ [][NextBatch]_vars

SpecVision == Init /\ [][NextVision]_vars

SpecBrowser == Init /\ [][NextBrowser]_vars

SpecDirect == Init /\ [][NextDirect]_vars

SpecZoom == Init /\ [][NextZoom]_vars

SpecBroadcast == Init /\ [][NextBroadcast]_vars

====
